---- MODULE Spec2Model ----
(***************************************************************************)
(* The APL decision engine of wow_detector: expression AST evaluation,     *)
(* the GameContext identifier resolver, the caching ExpressionEvaluator    *)
(* and the priority-ordered APLExecutor (src/apl_system), together with    *)
(* the chain-resolution prototype (src/apl.py).                            *)
(*                                                                         *)
(* Numbers.  The code computes in floats.  The model is exact fixed point: *)
(* a model integer n stands for the value n / Scale, so 1.0 is One.  Time  *)
(* is counted in ticks of 1 / TicksPerSecond seconds.                      *)
(***************************************************************************)
EXTENDS Integers, Sequences, FiniteSets, TLC

VARIABLES
    context,      \* GameContext: current_time, mana, buffs
    evalctx,      \* EvalContext of apl.py: state, module registry, attribute registry
    evaluator,    \* ExpressionEvaluator: cache, dependency maps, stats, settings
    executor,     \* APLExecutor: state, current_apl, counters
    registry,     \* ActionRegistry.actions with each handler's behaviour
    result,       \* the operation called last and what it returned
    scheduler,    \* APLScheduler: time, event queue, active events, flags
    trace,        \* the scheduler call made last and what the callbacks have noted
    action_registry,  \* ActionRegistry: actions and the category, tag and alias indices
    buff_manager, \* BuffManager.buffs of engine/state_manager.py
    parser,       \* APLParser: the script given to parse and what parse returned
    buff_state,   \* a BuffState of engine/state_manager.py, updated through Identifier.update
    rotation      \* APLRotationScheduler: gcd_duration, last_gcd_time

vars == <<context, evalctx, evaluator, executor, registry, result, scheduler, trace,
          action_registry, buff_manager, parser, buff_state, rotation>>

-----------------------------------------------------------------------------
(* Bounds of the exploration *)
MaxTime == 4          \* context.current_time stays within 0..MaxTime ticks
MaxEvals == 3         \* direct evaluate calls are made while total_evaluations < MaxEvals
MaxCycles == 2        \* decision cycles are run while total_executions < MaxCycles
MaxBuffs == 2         \* the buffs of a snapshot have ids 1..MaxBuffs
MaxFaultLines == 4    \* the scripts with faulty lines have 1..MaxFaultLines lines
MaxScriptLines == 2   \* the scripts given to parse have 1..MaxScriptLines lines
MaxPerTick == 2       \* max_events_per_tick of the scheduler whose ticks are capped
MaxSpawned == 7       \* process_events is called while its callbacks keep event_counter within MaxSpawned
MaxEvents == 3        \* events are scheduled while event_counter < MaxEvents
MaxSchedTime == 20    \* events are due, and advance_time is called, within 0..MaxSchedTime tenths of a second
MaxRunTime == 35      \* run_for_duration is called to end within 0..MaxRunTime tenths of a second

(* Units *)
Scale == 4            \* fixed point: n stands for n / 4
TicksPerSecond == 20  \* one tick is 50 ms
One == Scale
Num(n) == n * Scale

-----------------------------------------------------------------------------
(* Expression trees.  A node's children are indices into Nodes.            *)
Lit(v) == [kind |-> "lit", op |-> "", v |-> v, parts |-> <<>>, args |-> <<>>]
Ident(parts) == [kind |-> "id", op |-> "", v |-> 0, parts |-> parts, args |-> <<>>]
Unary(op, a) == [kind |-> "un", op |-> op, v |-> 0, parts |-> <<>>, args |-> <<a>>]
Binary(op, a, b) == [kind |-> "bin", op |-> op, v |-> 0, parts |-> <<>>, args |-> <<a, b>>]
FuncCall(name, args) == [kind |-> "call", op |-> name, v |-> 0, parts |-> <<>>, args |-> args]

Nodes ==
    << Ident(<<"mana">>),                          \*  1  mana
       Lit(50),                                    \*  2  50
       Lit(30),                                    \*  3  30
       Binary(">", 1, 2),                          \*  4  mana > 50
       Binary(">", 1, 3),                          \*  5  mana > 30
       Ident(<<"buff", "steady_focus", "stacks">>),\*  6  buff.steady_focus.stacks
       Lit(0),                                     \*  7  0
       Binary(">", 6, 7),                          \*  8  buff.steady_focus.stacks > 0
       Binary(">", 1, 2),                          \*  9  mana > 50, parsed a second time
       FuncCall("probe", <<>>),                    \* 10  probe()
       Ident(<<"target", "distance">>),            \* 11  target.distance
       Binary("+", 10, 11),                        \* 12  probe() + target.distance
       Binary("&", 4, 12),                         \* 13  mana > 50 & probe() + target.distance
       Binary("|", 4, 12),                         \* 14  mana > 50 | probe() + target.distance
       Binary("&", 8, 14),                         \* 15  buff... > 0 & (mana > 50 | probe() + ...)
       Ident(<<"nosuch", "thing">>),               \* 16  nosuch.thing
       Ident(<<"mana", "nosuch">>),                \* 17  mana.nosuch
       Binary("+", 16, 2),                         \* 18  nosuch.thing + 50
       Binary(">", 17, 7),                         \* 19  mana.nosuch > 0
       FuncCall("nofunc", <<1>>),                  \* 20  nofunc(mana)
       Unary("!", 4),                              \* 21  !(mana > 50)
       Binary("^", 4, 5),                          \* 22  mana > 50 ^ mana > 30
       FuncCall("max", <<1, 2>>),                  \* 23  max(mana, 50)
       Ident(<<"buff", "nosuch", "up">>),          \* 24  buff.nosuch.up
       Ident(<<"mana", "pct">>),                   \* 25  mana.pct
       Ident(<<"buff", "steady_focus", "stack">>), \* 26  buff.steady_focus.stack
       Binary(">", 26, 7),                         \* 27  buff.steady_focus.stack > 0
       Ident(<<"debuff", "vulnerable", "remains">>),\* 28 debuff.vulnerable.remains
       Binary("&", 27, 28),                        \* 29  buff...stack > 0 & debuff...remains
       Binary("|", 27, 28),                        \* 30  buff...stack > 0 | debuff...remains
       Binary("and", 30, 29),                      \* 31  (.. | ..) and (.. & ..)
       Ident(<<"buff", "steady_focus", "nosuch">>),\* 32  buff.steady_focus.nosuch
       Ident(<<"pet", "rex", "happy">>),           \* 33  pet.rex.happy
       Binary("+", 33, 2),                         \* 34  pet.rex.happy + 50
       Ident(<<"totem", "fire", "up">>),           \* 35  totem.fire.up
       Binary("or", 27, 35),                       \* 36  buff...stack > 0 or totem.fire.up
       Ident(<<"buff", "steady_focus", "owner", "id">>), \* 37  buff.steady_focus.owner.id
       FuncCall("nofunc", <<>>),                   \* 38  nofunc()
       Binary("&", 4, 38),                         \* 39  mana > 50 & nofunc()
       Ident(<<"buff", "steady_focus">>),          \* 40  buff.steady_focus
       Ident(<<"pet", "wolf", "happy">>),          \* 41  pet.wolf.happy
       Ident(<<"pet", "wolf", "mood">>),           \* 42  pet.wolf.mood
       Ident(<<"pet", "wolf", "nosuch">>)          \* 43  pet.wolf.nosuch
    >>

ExprIds == 1..Len(Nodes)
NoExpr == 0

-----------------------------------------------------------------------------
(* ast_nodes.py: __str__ and get_dependencies *)

\* str() of a literal's value, for the literals that occur in Nodes
NumStr(v) ==
    CASE v = 0 -> "0"
      [] v = 30 -> "30"
      [] v = 50 -> "50"
      [] OTHER -> "?"

\* ".".join(parts), kept as the list of its segments with the dots between them
Join(parts) ==
    [i \in 1..(2 * Len(parts) - 1) |-> IF i % 2 = 1 THEN parts[(i + 1) \div 2] ELSE "."]

RECURSIVE StrArgs(_, _)
RECURSIVE Str(_)
\* ", ".join(str(arg) for arg in args[i..])
StrArgs(args, i) ==
    IF i > Len(args) THEN <<>>
    ELSE Str(args[i]) \o (IF i < Len(args) THEN <<", ">> ELSE <<>>) \o StrArgs(args, i + 1)

\* ExprNode.__str__, as the sequence of the pieces it concatenates
Str(e) ==
    LET n == Nodes[e] IN
    CASE n.kind = "lit" -> <<NumStr(n.v)>>
      [] n.kind = "id" -> Join(n.parts)
      [] n.kind = "un" -> <<"(", n.op>> \o Str(n.args[1]) \o <<")">>
      [] n.kind = "bin" -> <<"(">> \o Str(n.args[1]) \o <<" ", n.op, " ">> \o Str(n.args[2]) \o <<")">>
      [] n.kind = "call" -> <<n.op, "(">> \o StrArgs(n.args, 1) \o <<")">>

RECURSIVE get_dependencies(_)
RECURSIVE DepsOfArgs(_, _)
DepsOfArgs(args, i) ==
    IF i > Len(args) THEN <<>> ELSE get_dependencies(args[i]) \o DepsOfArgs(args, i + 1)

\* ExprNode.get_dependencies: the list of identifier paths, in traversal order
get_dependencies(e) ==
    LET n == Nodes[e] IN
    CASE n.kind = "lit" -> <<>>
      [] n.kind = "id" -> <<Join(n.parts)>>
      [] n.kind = "un" -> get_dependencies(n.args[1])
      [] n.kind = "bin" -> get_dependencies(n.args[1]) \o get_dependencies(n.args[2])
      [] n.kind = "call" -> DepsOfArgs(n.args, 1)

Range(s) == {s[i] : i \in DOMAIN s}

-----------------------------------------------------------------------------
(* context.py: ResourceInfo, BuffInfo, GameContext *)

EmptyMap == [x \in {} |-> 0]
Min(a, b) == IF a < b THEN a ELSE b
Max(a, b) == IF a > b THEN a ELSE b
Abs(a) == IF a < 0 THEN -a ELSE a

\* a time in ticks as a value in seconds
Seconds(t) == (t * Scale) \div TicksPerSecond

BuffNames == {"steady_focus"}
ResourceAttrs == {"current", "maximum", "regen_rate", "last_update", "pct", "deficit", "deficit_pct"}
BuffAttrs == {"stacks", "duration", "max_stacks", "expires_at", "up", "down", "remains"}

ResourceInfo_pct(r) == IF r.maximum <= 0 THEN 0 ELSE (r.current * Num(100)) \div r.maximum
ResourceInfo_deficit(r) == Max(0, r.maximum - r.current)
ResourceInfo_deficit_pct(r) ==
    IF r.maximum <= 0 THEN 0 ELSE (ResourceInfo_deficit(r) * Num(100)) \div r.maximum

\* getattr(resource, attr) for the numeric attributes
ResourceAttr(r, attr) ==
    CASE attr = "current" -> r.current
      [] attr = "maximum" -> r.maximum
      [] attr = "regen_rate" -> r.regen_rate
      [] attr = "last_update" -> Seconds(r.last_update)
      [] attr = "pct" -> ResourceInfo_pct(r)
      [] attr = "deficit" -> ResourceInfo_deficit(r)
      [] attr = "deficit_pct" -> ResourceInfo_deficit_pct(r)

ResourceInfo_update(r, current_time) ==
    [r EXCEPT
       !.current = IF r.last_update > 0 /\ r.regen_rate > 0
                   THEN Min(r.maximum,
                            r.current + (r.regen_rate * (current_time - r.last_update)) \div TicksPerSecond)
                   ELSE @,
       !.last_update = current_time]

BuffInfo_up(b) == IF b.stacks > 0 /\ b.duration > 0 THEN One ELSE 0

BuffAttr(b, attr) ==
    CASE attr = "stacks" -> Num(b.stacks)
      [] attr = "duration" -> Seconds(b.duration)
      [] attr = "max_stacks" -> Num(b.max_stacks)
      [] attr = "expires_at" -> Seconds(b.expires_at)
      [] attr = "up" -> BuffInfo_up(b)
      [] attr = "down" -> One - BuffInfo_up(b)
      [] attr = "remains" -> Max(0, Seconds(b.duration))

BuffInfo_update(b, current_time) ==
    IF b.expires_at > 0 /\ current_time >= b.expires_at
    THEN [b EXCEPT !.stacks = 0, !.duration = 0, !.expires_at = 0]
    ELSE IF b.expires_at > 0
         THEN [b EXCEPT !.duration = b.expires_at - current_time]
         ELSE b

\* GameContext.__init__, with mana as the modelled resource
GameContext_init ==
    [ current_time |-> 0,
      mana |-> [current |-> Num(100), maximum |-> Num(100), regen_rate |-> Num(5), last_update |-> 0],
      buffs |-> EmptyMap,
      target_distance |-> 0,
      functions |-> {"probe"} ]

\* GameContext.resolve_identifier
GameContext_resolve_identifier(ctx, parts) ==
    IF Len(parts) = 0 THEN 0
    ELSE LET root == parts[1] IN
      CASE root = "mana" ->
             IF Len(parts) = 1 THEN ctx.mana.current
             ELSE IF Len(parts) = 2 /\ parts[2] \in ResourceAttrs THEN ResourceAttr(ctx.mana, parts[2])
             ELSE 0
        [] root = "buff" ->
             IF Len(parts) >= 2
             THEN IF parts[2] \notin DOMAIN ctx.buffs THEN 0
                  ELSE IF Len(parts) = 2 THEN BuffInfo_up(ctx.buffs[parts[2]])
                  ELSE IF Len(parts) = 3 /\ parts[3] \in BuffAttrs THEN BuffAttr(ctx.buffs[parts[2]], parts[3])
                  ELSE 0
             ELSE 0
        [] root = "target" ->
             IF Len(parts) = 1 THEN One
             ELSE IF parts[2] = "distance" THEN ctx.target_distance
             ELSE 0
        [] root = "time" -> Seconds(ctx.current_time)
        [] OTHER -> 0

\* GameContext.update
GameContext_update(ctx, current_time) ==
    [ctx EXCEPT
       !.current_time = current_time,
       !.mana = ResourceInfo_update(ctx.mana, current_time),
       !.buffs = [b \in DOMAIN ctx.buffs |-> BuffInfo_update(ctx.buffs[b], current_time)]]

\* GameContext.set_resource(name, current)
GameContext_set_resource(ctx, current) == [ctx EXCEPT !.mana.current = current]

\* GameContext.add_buff(name, duration, stacks)
GameContext_add_buff(ctx, name, duration, stacks) ==
    [ctx EXCEPT !.buffs =
        [b \in DOMAIN ctx.buffs \cup {name} |->
            IF b = name
            THEN [stacks |-> stacks, duration |-> duration, max_stacks |-> 1,
                  expires_at |-> IF duration > 0 THEN ctx.current_time + duration ELSE 0]
            ELSE ctx.buffs[b]]]

\* GameContext.remove_buff(name)
GameContext_remove_buff(ctx, name) ==
    [ctx EXCEPT !.buffs = [b \in DOMAIN ctx.buffs \ {name} |-> ctx.buffs[b]]]

-----------------------------------------------------------------------------
(* ast_nodes.py: evaluate.  An evaluation yields its value, whether it     *)
(* raised, and the log of the calls it made, in order:                     *)
(* resolve_identifier(parts) and call_function(name) on the context, and,  *)
(* for the evaluator, each cache hit or miss with the text of the          *)
(* expression asked for (what) and of the one the value was computed from  *)
(* (source).                                                               *)

Ok(v, log) == [value |-> v, error |-> FALSE, log |-> log]
Raised(log) == [value |-> 0, error |-> TRUE, log |-> log]
Resolved(parts) == [call |-> "resolve_identifier", what |-> Join(parts), source |-> <<>>]
Called(name) == [call |-> "call_function", what |-> <<name>>, source |-> <<>>]

\* GameContext.call_function: the registered custom functions return 1.0
GameContext_call_function(ctx, name, nargs) ==
    CASE name = "time_to_pct" /\ nargs >= 2 -> Ok(Num(10), <<Called(name)>>)
      [] name = "time_to_max" /\ nargs >= 1 -> Ok(Num(20), <<Called(name)>>)
      [] name \notin {"time_to_pct", "time_to_max"} /\ name \in ctx.functions -> Ok(One, <<Called(name)>>)
      [] OTHER -> Raised(<<Called(name)>>)

\* LiteralNode.evaluate
LiteralNode_evaluate(n) == Ok(Num(n.v), <<>>)

\* IdentifierNode.evaluate: a failing resolution yields 0.0
IdentifierNode_evaluate(n, ctx) ==
    Ok(GameContext_resolve_identifier(ctx, n.parts), <<Resolved(n.parts)>>)

RECURSIVE Eval(_, _)
RECURSIVE EvalArgs(_, _, _)

\* UnaryNode.evaluate
UnaryNode_evaluate(n, ctx) ==
    LET a == Eval(n.args[1], ctx) IN
    IF a.error THEN a
    ELSE CASE n.op = "+" -> a
           [] n.op = "-" -> Ok(-a.value, a.log)
           [] n.op = "!" -> Ok(IF a.value = 0 THEN One ELSE 0, a.log)
           [] OTHER -> Raised(a.log)

Truth(b) == IF b THEN One ELSE 0

\* the operators of BinaryNode.evaluate that evaluate both sides
BinaryOp(op, l, r) ==
    CASE op = "+" -> l + r
      [] op = "-" -> l - r
      [] op = "*" -> (l * r) \div Scale
      [] op \in {"%", "%%"} -> IF r > 0 THEN l % r ELSE IF r < 0 THEN -((-l) % (-r)) ELSE 0
      [] op \in {"=", "~"} -> Truth(l = r)
      [] op \in {"!=", "!~"} -> Truth(l # r)
      [] op = "<" -> Truth(l < r)
      [] op = "<=" -> Truth(l <= r)
      [] op = ">" -> Truth(l > r)
      [] op = ">=" -> Truth(l >= r)
      [] op = "^" -> Truth((l # 0) # (r # 0))

BinaryOps == {"+", "-", "*", "%", "%%", "=", "~", "!=", "!~", "<", "<=", ">", ">=", "^"}

\* a binary node that evaluates its left side and then always its right side
BinaryNode_evaluate_eager(n, ctx) ==
    LET l == Eval(n.args[1], ctx)
        r == Eval(n.args[2], ctx)
    IN  IF l.error THEN l
        ELSE IF r.error THEN Raised(l.log \o r.log)
        ELSE CASE n.op = "&" -> Ok(Truth(l.value # 0 /\ r.value # 0), l.log \o r.log)
               [] n.op = "|" -> Ok(Truth(l.value # 0 \/ r.value # 0), l.log \o r.log)
               [] n.op \in BinaryOps -> Ok(BinaryOp(n.op, l.value, r.value), l.log \o r.log)
               [] OTHER -> Raised(l.log \o r.log)

\* BinaryNode.evaluate
BinaryNode_evaluate(n, ctx) ==
    LET l == Eval(n.args[1], ctx)
        r == Eval(n.args[2], ctx)
    IN  IF l.error THEN l
        ELSE IF n.op = "&" /\ l.value = 0 THEN Ok(0, l.log)
        ELSE IF n.op = "|" /\ l.value # 0 THEN Ok(One, l.log)
        ELSE IF r.error THEN Raised(l.log \o r.log)
        ELSE CASE n.op \in {"&", "|"} -> Ok(Truth(r.value # 0), l.log \o r.log)
               [] n.op \in BinaryOps -> Ok(BinaryOp(n.op, l.value, r.value), l.log \o r.log)
               [] OTHER -> Raised(l.log \o r.log)

\* [arg.evaluate(context) for arg in args[i..]]: values and log, stopping at a raise
EvalArgs(args, i, ctx) ==
    IF i > Len(args) THEN [values |-> <<>>, error |-> FALSE, log |-> <<>>]
    ELSE LET a == Eval(args[i], ctx) IN
         IF a.error THEN [values |-> <<>>, error |-> TRUE, log |-> a.log]
         ELSE LET rest == EvalArgs(args, i + 1, ctx) IN
              [values |-> <<a.value>> \o rest.values, error |-> rest.error, log |-> a.log \o rest.log]

Floor(x) == (x \div Scale) * Scale
\* round(x): to the nearest integer, a half to the even one
Round(x) ==
    LET f == Floor(x) IN
    IF 2 * (x - f) < Scale THEN f
    ELSE IF 2 * (x - f) > Scale THEN f + Scale
    ELSE IF (f \div Scale) % 2 = 0 THEN f ELSE f + Scale

RECURSIVE MinOf(_)
MinOf(vs) == IF Len(vs) = 1 THEN vs[1] ELSE Min(vs[1], MinOf(Tail(vs)))
RECURSIVE MaxOf(_)
MaxOf(vs) == IF Len(vs) = 1 THEN vs[1] ELSE Max(vs[1], MaxOf(Tail(vs)))

\* FunctionCallNode.evaluate
FunctionCallNode_evaluate(n, ctx) ==
    LET a == EvalArgs(n.args, 1, ctx)
        k == Len(a.values)
    IN  IF a.error THEN Raised(a.log)
        ELSE CASE n.op = "floor" -> IF k = 1 THEN Ok(Floor(a.values[1]), a.log) ELSE Raised(a.log)
               [] n.op = "ceil" -> IF k = 1 THEN Ok(-Floor(-a.values[1]), a.log) ELSE Raised(a.log)
               [] n.op = "abs" -> IF k = 1 THEN Ok(Abs(a.values[1]), a.log) ELSE Raised(a.log)
               [] n.op = "min" -> IF k >= 1 THEN Ok(MinOf(a.values), a.log) ELSE Raised(a.log)
               [] n.op = "max" -> IF k >= 1 THEN Ok(MaxOf(a.values), a.log) ELSE Raised(a.log)
               [] n.op = "round" -> IF k = 1 THEN Ok(Round(a.values[1]), a.log) ELSE Raised(a.log)
               [] OTHER -> LET c == GameContext_call_function(ctx, n.op, k) IN
                           [c EXCEPT !.log = a.log \o c.log]

\* ExprNode.evaluate, dispatched on the node type
Eval(e, ctx) ==
    LET n == Nodes[e] IN
    CASE n.kind = "lit" -> LiteralNode_evaluate(n)
      [] n.kind = "id" -> IdentifierNode_evaluate(n, ctx)
      [] n.kind = "un" -> UnaryNode_evaluate(n, ctx)
      [] n.kind = "bin" -> BinaryNode_evaluate(n, ctx)
      [] n.kind = "call" -> FunctionCallNode_evaluate(n, ctx)

-----------------------------------------------------------------------------
(* apl.py: Handle, ModuleRegistry, AttrRegistry, EvalContext, Expr         *)

\* Handle(htype, name, data); data.present is FALSE for the empty dict
Handle(htype, name, data) == [htype |-> htype, name |-> name, data |-> data, none |-> FALSE]
NoData == [present |-> FALSE, remains |-> 0, stacks |-> 0]
\* the value None where a Handle is expected
NoneHandle == [htype |-> "", name |-> "", data |-> NoData, none |-> TRUE]

\* BuffModule.get_handle: buffs, then target_debuffs, then a handle with empty data
BuffModule_get_handle(state, name) ==
    IF name \in DOMAIN state.buffs THEN Handle("buff_inst", name, state.buffs[name])
    ELSE IF name \in DOMAIN state.target_debuffs THEN Handle("buff_inst", name, state.target_debuffs[name])
    ELSE Handle("buff_inst", name, NoData)

\* module.get_handle(name, ctx) for the module classes a registry may hold:
\*   BuffModule; a module that returns None for a name it does not know (the
\*   Optional[Handle] of ModuleBase.get_handle); ModuleBase itself, whose
\*   get_handle raises NotImplementedError
get_handle(module, state, name) ==
    CASE module.class = "BuffModule" -> [raised |-> FALSE, handle |-> BuffModule_get_handle(state, name)]
      [] module.class = "OptionalModule" ->
            [raised |-> FALSE,
             handle |-> IF name \in module.names THEN Handle(module.htype, name, NoData) ELSE NoneHandle]
      [] module.class = "ModuleBase" -> [raised |-> TRUE, handle |-> NoneHandle]

\* ModuleRegistry.get
ModuleRegistry_get(modules, prefix) ==
    IF prefix \in DOMAIN modules THEN modules[prefix] ELSE [class |-> "None", htype |-> "", names |-> {}]

\* resolver.can_resolve(handle_type, attr_name)
can_resolve(r, handle_type, attr_name) ==
    CASE r.class = "BuffAttrResolver" ->
            handle_type = "buff_inst" /\ attr_name \in {"remains", "stack", "stacks", "up"}
      [] r.class = "ExampleNestedAttrResolver" -> handle_type = "buff_inst" /\ attr_name = "owner"
      [] OTHER -> handle_type \in r.types /\ attr_name \in r.attrs

\* resolver.resolve(handle, parts, ctx) -> (result, consumed)
ResolveNumber(v, consumed) == [kind |-> "number", num |-> v, handle |-> NoneHandle, consumed |-> consumed]
ResolveHandle(h, consumed) == [kind |-> "handle", num |-> 0, handle |-> h, consumed |-> consumed]
ResolveRaised == [kind |-> "raise", num |-> 0, handle |-> NoneHandle, consumed |-> 0]

BuffAttrResolver_resolve(handle, parts) ==
    IF Len(parts) = 0 THEN ResolveNumber(Truth(handle.data.remains > 0), 0)
    ELSE CASE parts[1] = "remains" -> ResolveNumber(handle.data.remains, 1)
           [] parts[1] \in {"stack", "stacks"} -> ResolveNumber(handle.data.stacks, 1)
           [] parts[1] = "up" -> ResolveNumber(Truth(handle.data.remains > 0), 1)
           [] OTHER -> ResolveNumber(0, 1)

ExampleNestedAttrResolver_resolve(handle) ==
    ResolveHandle(Handle("entity", "player", NoData), 1)

resolve(r, handle, parts) ==
    CASE r.class = "BuffAttrResolver" -> BuffAttrResolver_resolve(handle, parts)
      [] r.class = "ExampleNestedAttrResolver" -> ExampleNestedAttrResolver_resolve(handle)
      [] r.class = "NumberResolver" -> ResolveNumber(r.value, r.consumed)
      [] r.class = "HandleResolver" -> ResolveHandle(Handle(r.to, handle.name, NoData), r.consumed)
      [] r.class = "AttrResolverBase" -> ResolveRaised

NoResolver == 0

\* AttrRegistry.find with the wildcard tried before the handle's own type
AttrRegistry_find_wildcard_first(resolvers, handle_type, attr_name) ==
    LET wild == {i \in DOMAIN resolvers : can_resolve(resolvers[i], "*", attr_name)}
        hits == {i \in DOMAIN resolvers : can_resolve(resolvers[i], handle_type, attr_name)}
    IN  IF wild # {} THEN CHOOSE i \in wild : \A j \in wild : i <= j
        ELSE IF hits = {} THEN NoResolver ELSE CHOOSE i \in hits : \A j \in hits : i <= j

\* AttrRegistry.find: the index of the first resolver that can resolve, or NoResolver
AttrRegistry_find(resolvers, handle_type, attr_name) ==
    LET hits == {i \in DOMAIN resolvers : can_resolve(resolvers[i], handle_type, attr_name)} IN
    IF hits = {} THEN NoResolver ELSE CHOOSE i \in hits : \A j \in hits : i <= j

\* AttrRegistry.find_any
AttrRegistry_find_any(resolvers, attr_name) == AttrRegistry_find(resolvers, "*", attr_name)

SubSeqFrom(s, i) == IF i > Len(s) THEN <<>> ELSE SubSeq(s, i, Len(s))

Value(v) == [value |-> v, error |-> FALSE]
Raise == [value |-> 0, error |-> TRUE]

\* one resolver.resolve call made by resolve_identifier: the segment index (0 for
\* the default attribute), the handle type it was looked up for, the resolver, and
\* what the resolver returned
ResolverCall(idx, handle, attr, r, got) ==
    [idx |-> idx, htype |-> handle.htype, attr |-> attr, resolver |-> r, kind |-> got.kind,
     num |-> got.num, to |-> got.handle.htype, consumed |-> got.consumed]

\* resolve_identifier, lines 317-323: the default attribute 'up' on the final handle;
\* calls is the list of resolver calls made so far
ChainDefaultRun(ectx, handle, calls) ==
    IF handle.none THEN [out |-> Raise, calls |-> calls]
    ELSE LET f == AttrRegistry_find(ectx.resolvers, handle.htype, "up")
             d == IF f # NoResolver THEN f ELSE AttrRegistry_find_any(ectx.resolvers, "up")
         IN  IF d = NoResolver THEN [out |-> Value(0), calls |-> calls]
             ELSE LET got == resolve(ectx.resolvers[d], handle, <<"up">>) IN
                  [out |-> IF got.kind = "number" THEN Value(got.num) ELSE Raise,
                   calls |-> Append(calls, ResolverCall(0, handle, "up", d, got))]

ChainDefault(ectx, handle) == ChainDefaultRun(ectx, handle, <<>>).out

RECURSIVE ChainRun_trusts_consumed_at_first(_, _, _, _, _)
\* the loop advancing by the reported consumed count, whatever its sign, for as many
\* calls as the path has parts
ChainRun_trusts_consumed_at_first(ectx, handle, parts, idx, calls) ==
    IF idx > Len(parts) THEN ChainDefaultRun(ectx, handle, calls)
    ELSE IF handle.none THEN [out |-> Raise, calls |-> calls]
    ELSE LET f == AttrRegistry_find(ectx.resolvers, handle.htype, parts[idx])
             r == IF f # NoResolver THEN f ELSE AttrRegistry_find_any(ectx.resolvers, parts[idx])
         IN  IF r = NoResolver THEN [out |-> Value(0), calls |-> calls]
             ELSE LET got == resolve(ectx.resolvers[r], handle, SubSeqFrom(parts, idx))
                      made == Append(calls, ResolverCall(idx, handle, parts[idx], r, got))
                  IN  CASE got.kind = "raise" -> [out |-> Raise, calls |-> made]
                        [] got.kind = "handle" ->
                             ChainRun_trusts_consumed_at_first(ectx, got.handle, parts,
                                 idx + (IF Len(calls) < Len(parts) THEN got.consumed
                                        ELSE Max(1, got.consumed)), made)
                        [] got.kind = "number" -> [out |-> Value(got.num), calls |-> made]

RECURSIVE ChainRun_keeps_first_handle(_, _, _, _, _)
\* the loop looking every segment up against the first handle
ChainRun_keeps_first_handle(ectx, handle, parts, idx, calls) ==
    IF idx > Len(parts) THEN ChainDefaultRun(ectx, handle, calls)
    ELSE IF handle.none THEN [out |-> Raise, calls |-> calls]
    ELSE LET f == AttrRegistry_find(ectx.resolvers, handle.htype, parts[idx])
             r == IF f # NoResolver THEN f ELSE AttrRegistry_find_any(ectx.resolvers, parts[idx])
         IN  IF r = NoResolver THEN [out |-> Value(0), calls |-> calls]
             ELSE LET got == resolve(ectx.resolvers[r], handle, SubSeqFrom(parts, idx))
                      made == Append(calls, ResolverCall(idx, handle, parts[idx], r, got))
                  IN  CASE got.kind = "raise" -> [out |-> Raise, calls |-> made]
                        [] got.kind = "handle" ->
                             ChainRun_keeps_first_handle(ectx, handle, parts,
                                                         idx + Max(1, got.consumed), made)
                        [] got.kind = "number" -> [out |-> Value(got.num), calls |-> made]

RECURSIVE ChainRun(_, _, _, _, _)
\* resolve_identifier, lines 300-316: the loop over parts[idx..], idx counted from 1;
\* calls is the list of resolver calls made so far
ChainRun(ectx, handle, parts, idx, calls) ==
    IF idx > Len(parts) THEN ChainDefaultRun(ectx, handle, calls)
    ELSE IF handle.none THEN [out |-> Raise, calls |-> calls]
    ELSE LET f == AttrRegistry_find(ectx.resolvers, handle.htype, parts[idx])
             r == IF f # NoResolver THEN f ELSE AttrRegistry_find_any(ectx.resolvers, parts[idx])
         IN  IF r = NoResolver THEN [out |-> Value(0), calls |-> calls]
             ELSE LET got == resolve(ectx.resolvers[r], handle, SubSeqFrom(parts, idx))
                      made == Append(calls, ResolverCall(idx, handle, parts[idx], r, got))
                  IN  CASE got.kind = "raise" -> [out |-> Raise, calls |-> made]
                        [] got.kind = "handle" ->
                             ChainRun(ectx, got.handle, parts, idx + Max(1, got.consumed), made)
                        [] got.kind = "number" -> [out |-> Value(got.num), calls |-> made]

\* resolve_identifier, lines 300-323: the value the loop returns
ChainLoop(ectx, handle, parts, idx) == ChainRun(ectx, handle, parts, idx, <<>>).out

\* EvalContext.resolve_identifier with the resolver calls it made
resolve_identifier_run(ectx, parts) ==
    IF Len(parts) = 0 THEN [out |-> Value(0), calls |-> <<>>]
    ELSE LET module == ModuleRegistry_get(ectx.modules, parts[1]) IN
         IF module.class = "None" THEN [out |-> Value(0), calls |-> <<>>]
         ELSE IF Len(parts) < 2 THEN [out |-> Value(0), calls |-> <<>>]
         ELSE LET got == get_handle(module, ectx.state, parts[2]) IN
              IF got.raised THEN [out |-> Raise, calls |-> <<>>]
              ELSE ChainRun(ectx, got.handle, parts, 3, <<>>)

\* EvalContext.resolve_identifier
EvalContext_resolve_identifier(ectx, parts) == resolve_identifier_run(ectx, parts).out

\* Ident.eval: the resolution's exception, if any, propagates
Ident_eval(n, ectx) ==
    LET got == EvalContext_resolve_identifier(ectx, n.parts) IN
    IF got.error THEN Raised(<<Resolved(n.parts)>>) ELSE Ok(got.value, <<Resolved(n.parts)>>)

RECURSIVE ExprEval(_, _)

\* the operators of Binary.eval that evaluate both sides
Binary_op(op, la, lb) ==
    CASE op = "+" -> la + lb
      [] op = "-" -> la - lb
      [] op = "*" -> (la * lb) \div Scale
      [] op \in {"=", "=="} -> Truth(la = lb)
      [] op = "!=" -> Truth(la # lb)
      [] op = "<" -> Truth(la < lb)
      [] op = "<=" -> Truth(la <= lb)
      [] op = ">" -> Truth(la > lb)
      [] op = ">=" -> Truth(la >= lb)

Binary_ops == {"+", "-", "*", "=", "==", "!=", "<", "<=", ">", ">="}

\* Binary.eval
Binary_eval(n, ectx) ==
    LET la == ExprEval(n.args[1], ectx)
        lb == ExprEval(n.args[2], ectx)
    IN  IF la.error THEN la
        ELSE IF n.op \in {"&", "and"} /\ la.value = 0 THEN Ok(0, la.log)
        ELSE IF n.op \in {"|", "or"} /\ la.value # 0 THEN Ok(One, la.log)
        ELSE IF lb.error THEN Raised(la.log \o lb.log)
        ELSE CASE n.op \in {"&", "and"} -> Ok(Truth(la.value # 0 /\ lb.value # 0), la.log \o lb.log)
               [] n.op \in {"|", "or"} -> Ok(Truth(lb.value # 0), la.log \o lb.log)
               [] n.op \in Binary_ops -> Ok(Binary_op(n.op, la.value, lb.value), la.log \o lb.log)
               [] OTHER -> Raised(la.log \o lb.log)

\* Expr.eval of apl.py, dispatched on the class (Literal, Ident, Binary)
ExprEval(e, ectx) ==
    LET n == Nodes[e] IN
    CASE n.kind = "lit" -> Ok(Num(n.v), <<>>)
      [] n.kind = "id" -> Ident_eval(n, ectx)
      [] n.kind = "bin" -> Binary_eval(n, ectx)
      [] OTHER -> Raised(<<>>)

-----------------------------------------------------------------------------
(* evaluator.py: CacheEntry, ExpressionEvaluator *)

cache_ttl == 2          \* 0.1 s, in ticks
max_cache_size == 1000  \* never reached by the keys of this model, so optimize_cache never evicts

Remove(f, k) == [x \in DOMAIN f \ {k} |-> f[x]]
Put(f, k, v) == [x \in DOMAIN f \cup {k} |-> IF x = k THEN v ELSE f[x]]

\* ExpressionEvaluator.__init__
ExpressionEvaluator_init ==
    [ cache |-> EmptyMap,
      dependency_map |-> EmptyMap,
      expression_deps |-> EmptyMap,
      stats |-> [total_evaluations |-> 0, cache_hits |-> 0, cache_misses |-> 0],
      cache_ttl |-> cache_ttl,
      enable_caching |-> TRUE,
      enable_dependency_tracking |-> TRUE ]

\* a validity check that lets an entry live one tick less
CacheEntry_is_valid_strict(entry, current_time, ttl) == (current_time - entry.timestamp) < ttl

\* CacheEntry.is_valid
CacheEntry_is_valid(entry, current_time, ttl) == (current_time - entry.timestamp) <= ttl

\* _generate_cache_key: "expr_" + hash(str(expr)); the hash is taken to be free of collisions
generate_cache_key(expr) == <<"expr_">> \o Str(expr)

\* the key evaluate_action_conditions passes: f"action_{action.action_name}_{condition}"
ActionCacheKey(action_name, condition) == <<"action_", action_name, "_", condition>>

\* cache_key = None
NoKey == <<>>

CacheHit(expr, source) == [call |-> "cache_hit", what |-> Str(expr), source |-> source]
CacheMiss(expr) == [call |-> "cache_miss", what |-> Str(expr), source |-> Str(expr)]

\* _cache_result
cache_result(ev, ctx, cache_key, value, expr) ==
    LET dependencies == Range(get_dependencies(expr))
        entry == [value |-> value, timestamp |-> ctx.current_time,
                  dependencies |-> dependencies, hit_count |-> 0,
                  source |-> Str(expr)]   \* source: history, the expression evaluated
        withEntry == [ev EXCEPT !.cache = Put(@, cache_key, entry)]
    IN  IF ev.enable_dependency_tracking
        THEN [withEntry EXCEPT
                !.expression_deps = Put(@, cache_key, dependencies),
                !.dependency_map =
                    [d \in DOMAIN @ \cup dependencies |->
                        IF d \in dependencies
                        THEN (IF d \in DOMAIN @ THEN @[d] ELSE {}) \cup {cache_key}
                        ELSE @[d]]]
        ELSE withEntry

\* ExpressionEvaluator.evaluate, lines 100-110: got is what expr.evaluate(context)
\* yielded, ev the evaluator after an expired entry was deleted
evaluate_miss(ev, ctx, expr, cache_key, got) ==
    IF got.error
    THEN [ ev |-> ev, value |-> 0, error |-> TRUE, hit |-> FALSE,
           log |-> <<CacheMiss(expr)>> \o got.log ]
    ELSE [ ev |-> [(IF ev.enable_caching
                    THEN cache_result(ev, ctx, cache_key, got.value, expr)
                    ELSE ev)
                   EXCEPT !.stats.cache_misses = @ + 1, !.stats.total_evaluations = @ + 1],
           value |-> got.value, error |-> FALSE, hit |-> FALSE,
           log |-> <<CacheMiss(expr)>> \o got.log ]

\* ExpressionEvaluator.evaluate(expr, cache_key): the evaluator afterwards, the value
\* returned, whether the call raised, whether it was a cache hit, and the context calls
evaluate(ev, ctx, expr, key) ==
    LET cache_key == IF key = NoKey THEN generate_cache_key(expr) ELSE key
        present == ev.enable_caching /\ cache_key \in DOMAIN ev.cache
        valid == present /\ CacheEntry_is_valid(ev.cache[cache_key], ctx.current_time, ev.cache_ttl)
    IN  IF valid
        THEN [ ev |-> [ev EXCEPT !.cache[cache_key].hit_count = @ + 1,
                                 !.stats.cache_hits = @ + 1,
                                 !.stats.total_evaluations = @ + 1],
               value |-> ev.cache[cache_key].value, error |-> FALSE, hit |-> TRUE,
               log |-> <<CacheHit(expr, ev.cache[cache_key].source)>> ]
        ELSE evaluate_miss(IF present THEN [ev EXCEPT !.cache = Remove(@, cache_key)] ELSE ev,
                           ctx, expr, cache_key, Eval(expr, ctx))

\* ExpressionEvaluator.invalidate_dependencies
invalidate_dependencies(ev, changed_identifiers) ==
    IF ~ev.enable_dependency_tracking THEN ev
    ELSE LET to_invalidate ==
                 UNION {ev.dependency_map[i] : i \in changed_identifiers \cap DOMAIN ev.dependency_map}
         IN  [ev EXCEPT !.cache = [k \in DOMAIN @ \ to_invalidate |-> @[k]]]

\* ExpressionEvaluator.clear_cache
clear_cache(ev) ==
    [ev EXCEPT !.cache = EmptyMap, !.dependency_map = EmptyMap, !.expression_deps = EmptyMap]

\* An action line: its name and its condition expressions (NoExpr where the option is absent)
ActionLine(action_name, if_expr) ==
    [ action_name |-> action_name, if_expr |-> if_expr, target_if_expr |-> NoExpr,
      wait_on_ready_expr |-> NoExpr, line_cd_expr |-> NoExpr, line_cooldown_expires |-> 0 ]

OtherConditions == <<"target_if", "wait_on_ready", "line_cd">>
ConditionExpr(action, condition) ==
    CASE condition = "if" -> action.if_expr
      [] condition = "target_if" -> action.target_if_expr
      [] condition = "wait_on_ready" -> action.wait_on_ready_expr
      [] condition = "line_cd" -> action.line_cd_expr

RECURSIVE EvaluateOthers(_, _, _, _, _, _)
\* evaluate_action_conditions, lines 126-136: the i-th condition after 'if' has been
\* evaluated to got
EvaluatedOther(ctx, action, i, results, log, got) ==
    IF got.error
    THEN [ev |-> got.ev, ok |-> FALSE, results |-> results, error |-> TRUE,
          log |-> log \o got.log]
    ELSE EvaluateOthers(got.ev, ctx, action, i + 1, Put(results, OtherConditions[i], got.value),
                        log \o got.log)

\* evaluate_action_conditions, lines 126-136: the conditions after 'if', from the i-th on
EvaluateOthers(ev, ctx, action, i, results, log) ==
    IF i > Len(OtherConditions)
    THEN [ev |-> ev, ok |-> TRUE, results |-> results, error |-> FALSE, log |-> log]
    ELSE IF ConditionExpr(action, OtherConditions[i]) = NoExpr
    THEN EvaluateOthers(ev, ctx, action, i + 1, results, log)
    ELSE EvaluatedOther(ctx, action, i, results, log,
                        evaluate(ev, ctx, ConditionExpr(action, OtherConditions[i]),
                                 ActionCacheKey(action.action_name, OtherConditions[i])))

\* evaluate_action_conditions, lines 120-124: the if condition has been evaluated to got
EvaluatedIf(ctx, action, got) ==
    IF got.error
    THEN [ev |-> got.ev, ok |-> FALSE, results |-> EmptyMap, error |-> TRUE, log |-> got.log]
    ELSE IF got.value = 0
    THEN [ev |-> got.ev, ok |-> FALSE, results |-> Put(EmptyMap, "if", got.value),
          error |-> FALSE, log |-> got.log]
    ELSE EvaluateOthers(got.ev, ctx, action, 1, Put(EmptyMap, "if", got.value), got.log)

\* ExpressionEvaluator.evaluate_action_conditions
evaluate_action_conditions(ev, ctx, action) ==
    IF action.if_expr # NoExpr
    THEN EvaluatedIf(ctx, action,
                     evaluate(ev, ctx, action.if_expr, ActionCacheKey(action.action_name, "if")))
    ELSE EvaluateOthers(ev, ctx, action, 1, EmptyMap, <<>>)

-----------------------------------------------------------------------------
(* action_registry.py and executor.py *)

\* A registered action: what its handler's can_execute answers ("yes", "no" or
\* "raise"), what its execute does ("success", "failed" or "raise"), and usage_count
RegisteredAction(can, exec) == [can |-> can, exec |-> exec, usage_count |-> 0]

\* ActionRegistry.get_action: whether the name is registered
Registered(reg, name) == name \in DOMAIN reg

\* APLExecutor.__init__
APLExecutor_init ==
    [ state |-> "idle", loaded |-> FALSE, current_apl |-> <<>>, mode |-> "normal",
      total_executions |-> 0, stop_on_first_executable |-> TRUE ]

\* What an operation returned.  For a decision cycle: the ExecutionResult, with the
\* evaluations, the position of the selected line and the calls of the cycle.  For an
\* evaluation: the value, whether it raised, whether it was a cache hit, its calls.
\* before is the cache as the operation found it; changed the identifiers it was given.
NoResult ==
    [ op |-> "", expr |-> NoExpr, key |-> NoKey, value |-> 0, raised |-> FALSE, hit |-> FALSE,
      log |-> <<>>, action_name |-> "", action_result |-> "", actions_considered |-> 0,
      conditions_evaluated |-> 0, error |-> FALSE, evaluations |-> <<>>, selected |-> 0,
      changed |-> {}, before |-> EmptyMap, exception |-> "", effects |-> {},
      attr |-> <<>>, snapshot |-> EmptyMap ]

\* ActionEvaluation of the line at position index; asked tells whether the
\* handler's can_execute was called
ActionEvaluation(index, action, registered, can, condition_results, asked, error) ==
    [ index |-> index, action_name |-> action.action_name, registered_action |-> registered,
      can_execute |-> can, condition_results |-> condition_results, asked |-> asked,
      error |-> error ]

\* APLExecutor._evaluate_action, lines 253-277: the conditions have been evaluated to got
ConditionsEvaluated(reg, index, action, got) ==
    IF got.error
    THEN [ev |-> got.ev, log |-> got.log,
          evaluation |-> ActionEvaluation(index, action, FALSE, FALSE, EmptyMap, FALSE, TRUE)]
    ELSE IF ~got.ok
    THEN [ev |-> got.ev, log |-> got.log,
          evaluation |-> ActionEvaluation(index, action, TRUE, FALSE, got.results, FALSE, FALSE)]
    ELSE IF reg[action.action_name].can = "raise"
    THEN [ev |-> got.ev, log |-> got.log,
          evaluation |-> ActionEvaluation(index, action, FALSE, FALSE, EmptyMap, TRUE, TRUE)]
    ELSE [ev |-> got.ev, log |-> got.log,
          evaluation |-> ActionEvaluation(index, action, TRUE, reg[action.action_name].can = "yes",
                                          got.results, TRUE, FALSE)]

\* APLExecutor._evaluate_action: the evaluator afterwards, the evaluation, the context calls
evaluate_action(ev, ctx, reg, index, action) ==
    IF ~Registered(reg, action.action_name)
    THEN [ev |-> ev, log |-> <<>>,
          evaluation |-> ActionEvaluation(index, action, FALSE, FALSE, EmptyMap, FALSE, TRUE)]
    ELSE ConditionsEvaluated(reg, index, action, evaluate_action_conditions(ev, ctx, action))

RECURSIVE evaluate_all_actions_scan_every_line(_, _, _, _, _, _, _)
\* a scan that goes through every line whether or not one was found executable
evaluate_all_actions_scan_every_line(ev, ctx, reg, ex, i, evaluations, log) ==
    IF i > Len(ex.current_apl) THEN [ev |-> ev, evaluations |-> evaluations, log |-> log]
    ELSE LET got == evaluate_action(ev, ctx, reg, i, ex.current_apl[i]) IN
         evaluate_all_actions_scan_every_line(got.ev, ctx, reg, ex, i + 1,
                                              Append(evaluations, got.evaluation), log \o got.log)

RECURSIVE evaluate_all_actions_stop_at_fault(_, _, _, _, _, _, _)
\* a scan that ends at the first line whose evaluation records an error
evaluate_all_actions_stop_at_fault(ev, ctx, reg, ex, i, evaluations, log) ==
    IF i > Len(ex.current_apl) THEN [ev |-> ev, evaluations |-> evaluations, log |-> log]
    ELSE LET got == evaluate_action(ev, ctx, reg, i, ex.current_apl[i]) IN
         IF got.evaluation.error
            \/ (ex.stop_on_first_executable /\ got.evaluation.can_execute
                    /\ got.evaluation.registered_action)
         THEN [ev |-> got.ev, evaluations |-> Append(evaluations, got.evaluation),
               log |-> log \o got.log]
         ELSE evaluate_all_actions_stop_at_fault(got.ev, ctx, reg, ex, i + 1,
                                                 Append(evaluations, got.evaluation), log \o got.log)

RECURSIVE evaluate_all_actions(_, _, _, _, _, _, _)
\* APLExecutor._evaluate_all_actions, lines 224-231: the i-th line has been evaluated to got
ActionEvaluated(ctx, reg, ex, i, evaluations, log, got) ==
    IF ex.stop_on_first_executable /\ got.evaluation.can_execute /\ got.evaluation.registered_action
    THEN [ev |-> got.ev, evaluations |-> Append(evaluations, got.evaluation),
          log |-> log \o got.log]
    ELSE evaluate_all_actions(got.ev, ctx, reg, ex, i + 1, Append(evaluations, got.evaluation),
                              log \o got.log)

\* APLExecutor._evaluate_all_actions, from the i-th line of current_apl.actions on
evaluate_all_actions(ev, ctx, reg, ex, i, evaluations, log) ==
    IF i > Len(ex.current_apl) THEN [ev |-> ev, evaluations |-> evaluations, log |-> log]
    ELSE ActionEvaluated(ctx, reg, ex, i, evaluations, log,
                         evaluate_action(ev, ctx, reg, i, ex.current_apl[i]))

\* the first evaluation with can_execute and a registered action: its position, or 0
FirstExecutable(evaluations) ==
    LET hits == {i \in DOMAIN evaluations :
                    evaluations[i].can_execute /\ evaluations[i].registered_action}
    IN  IF hits = {} THEN 0 ELSE CHOOSE i \in hits : \A j \in hits : i <= j

RECURSIVE SumConditions(_)
SumConditions(evaluations) ==
    IF evaluations = <<>> THEN 0
    ELSE Cardinality(DOMAIN Head(evaluations).condition_results) + SumConditions(Tail(evaluations))


\* APLExecutor.execute_next_action, lines 148-188: scan is what _evaluate_all_actions
\* yielded, called the result of a cycle that did nothing yet
ActionsEvaluated(reg, ex, called, scan) ==
    LET first == FirstExecutable(scan.evaluations)
        name == IF first = 0 THEN "" ELSE scan.evaluations[first].action_name
        outcome == IF first = 0 \/ ex.mode = "simulation" THEN "success" ELSE reg[name].exec
    IN  IF outcome = "raise"
        THEN [ev |-> scan.ev, reg |-> reg, ex |-> [ex EXCEPT !.state = "error"],
              result |-> [called EXCEPT !.error = TRUE, !.evaluations = scan.evaluations,
                                        !.log = scan.log]]
        ELSE [ev |-> scan.ev,
              reg |-> IF first # 0 /\ ex.mode # "simulation"
                      THEN [reg EXCEPT ![name].usage_count = @ + 1] ELSE reg,
              ex |-> [ex EXCEPT !.state = "idle", !.total_executions = @ + 1],
              result |-> [called EXCEPT
                            !.actions_considered = Len(scan.evaluations),
                            !.conditions_evaluated = SumConditions(scan.evaluations),
                            !.evaluations = scan.evaluations,
                            !.log = scan.log,
                            !.selected = IF first = 0 THEN 0 ELSE scan.evaluations[first].index,
                            !.action_name = name,
                            !.action_result = IF first = 0 THEN "" ELSE outcome]]

\* APLExecutor.execute_next_action: the evaluator, registry and executor afterwards and
\* the result returned
execute_next_action(ev, ctx, reg, ex) ==
    IF ~ex.loaded
    THEN [ev |-> ev, reg |-> reg, ex |-> [ex EXCEPT !.state = "running"],
          result |-> [NoResult EXCEPT !.op = "execute_next_action", !.before = ev.cache,
                                      !.error = TRUE]]
    ELSE ActionsEvaluated(reg, ex,
                          [NoResult EXCEPT !.op = "execute_next_action", !.before = ev.cache],
                          evaluate_all_actions(ev, ctx, reg, ex, 1, <<>>, <<>>))

\* APLExecutor.load_apl
load_apl(ex, reg, apl) ==
    [ex |-> [ex EXCEPT !.loaded = TRUE, !.current_apl = apl, !.state = "idle"],
     ok |-> \A i \in DOMAIN apl : Registered(reg, apl[i].action_name)]

-----------------------------------------------------------------------------
(* scheduler.py: ScheduledEvent, DefaultEventHandler, APLScheduler.         *)
(* Scheduler time is counted in tenths of a second. The event queue holds   *)
(* references: objects maps a reference to the ScheduledEvent it denotes,   *)
(* event_queue is the heap list of references, active_events maps an event  *)
(* id to the reference registered under it. The reference of an event is    *)
(* the number in its id: reset() drops every event before a number is used  *)
(* again.                                                                   *)

TenthsPerSecond == 10
Secs(n) == n * TenthsPerSecond

\* EventPriority
EventPriority == [CRITICAL |-> 0, HIGH |-> 1, NORMAL |-> 2, LOW |-> 3]

\* ScheduledEvent(...); callback is "record" (a callable that notes the call),
\* "raise" (a callable that raises) or "none" (None)
ScheduledEvent(event_id, scheduled_time, priority, callback, repeating, interval, max_repeats) ==
    [event_id |-> event_id, scheduled_time |-> scheduled_time, priority |-> priority,
     callback |-> callback, repeating |-> repeating, interval |-> interval,
     max_repeats |-> max_repeats, repeat_count |-> 0]

\* ScheduledEvent.__lt__ comparing the time only
ScheduledEvent_lt_time_only(self, other) == self.scheduled_time < other.scheduled_time

\* ScheduledEvent.__lt__
ScheduledEvent_lt(self, other) ==
    IF self.scheduled_time # other.scheduled_time THEN self.scheduled_time < other.scheduled_time
    ELSE self.priority < other.priority

RECURSIVE siftdown(_, _, _, _, _)
\* heapq._siftdown(heap, startpos, pos), positions counted from 1
siftdown(objects, heap, startpos, pos, newitem) ==
    IF pos > startpos /\ ScheduledEvent_lt(objects[newitem], objects[heap[pos \div 2]])
    THEN siftdown(objects, [heap EXCEPT ![pos] = heap[pos \div 2]], startpos, pos \div 2, newitem)
    ELSE [heap EXCEPT ![pos] = newitem]

\* heappush that appends the item and leaves it at the end of the list
heappush_unsifted(objects, heap, item) == Append(heap, item)

\* heapq.heappush(heap, item)
heappush(objects, heap, item) == siftdown(objects, Append(heap, item), 1, Len(heap) + 1, item)

\* the child heapq._siftup moves up from below pos
SmallerChild(objects, heap, pos) ==
    IF 2 * pos + 1 <= Len(heap) /\ ~ScheduledEvent_lt(objects[heap[2 * pos]], objects[heap[2 * pos + 1]])
    THEN 2 * pos + 1 ELSE 2 * pos

RECURSIVE siftup_loop(_, _, _)
\* heapq._siftup, the loop that bubbles the smaller child up until a leaf is hit
siftup_loop(objects, heap, pos) ==
    IF 2 * pos <= Len(heap)
    THEN siftup_loop(objects, [heap EXCEPT ![pos] = heap[SmallerChild(objects, heap, pos)]],
                     SmallerChild(objects, heap, pos))
    ELSE [heap |-> heap, pos |-> pos]

\* heapq._siftup(heap, pos): the leaf found takes newitem, which is then sifted down
siftup_place(objects, at, startpos, newitem) ==
    siftdown(objects, [at.heap EXCEPT ![at.pos] = newitem], startpos, at.pos, newitem)
siftup(objects, heap, pos) == siftup_place(objects, siftup_loop(objects, heap, pos), pos, heap[pos])

\* heapq.heappop(heap): the item returned and the heap left
heappop(objects, heap) ==
    IF Len(heap) = 1 THEN [item |-> heap[1], heap |-> <<>>]
    ELSE [item |-> heap[1],
          heap |-> siftup(objects, [SubSeq(heap, 1, Len(heap) - 1) EXCEPT ![1] = heap[Len(heap)]], 1)]

\* SchedulerStats()
SchedulerStats == [total_events |-> 0, processed_events |-> 0, pending_events |-> 0]

\* no run_for_duration call in progress
NoCall == [name |-> "none", start_time |-> 0, duration |-> 0, tick_rate |-> 0]

\* APLScheduler.__init__
APLScheduler_init ==
    [current_time |-> 0, time_scale |-> 1, event_queue |-> <<>>, objects |-> EmptyMap,
     active_events |-> EmptyMap, event_counter |-> 0, stats |-> SchedulerStats,
     running |-> FALSE, paused |-> FALSE, max_events_per_tick |-> 100, call |-> NoCall]

\* APLRotationScheduler.__init__ (gcd_duration is 1.5 s)
APLRotationScheduler_init ==
    [rotation_active |-> FALSE, gcd_duration |-> 15, last_gcd_time |-> 0, action_queue |-> <<>>]

\* APLRotationScheduler.can_cast_now
can_cast_now(rot, s) == (s.current_time - rot.last_gcd_time) >= rot.gcd_duration

\* APLScheduler.schedule_event; ref is the reference of the ScheduledEvent created
schedule_event(s, ref, delay, priority, callback, repeating, interval, max_repeats) ==
    LET event_id == s.event_counter + 1
        objects == Put(s.objects, ref,
                       ScheduledEvent(event_id, s.current_time + delay, priority, callback,
                                      repeating, interval, max_repeats))
    IN  [s EXCEPT !.event_counter = event_id,
                  !.objects = objects,
                  !.event_queue = heappush(objects, s.event_queue, ref),
                  !.active_events = Put(s.active_events, event_id, ref),
                  !.stats.total_events = @ + 1,
                  !.stats.pending_events = @ + 1]

\* APLScheduler.schedule_timer
schedule_timer(s, ref, delay, callback, repeating) ==
    schedule_event(s, ref, delay, EventPriority.NORMAL, callback, repeating,
                   IF repeating THEN delay ELSE 0, -1)

\* cancel_event that only counts the event as no longer pending
cancel_event_count_only(s, event_id) ==
    IF event_id \in DOMAIN s.active_events
    THEN [s |-> [s EXCEPT !.stats.pending_events = @ - 1], ok |-> TRUE]
    ELSE [s |-> s, ok |-> FALSE]

\* APLScheduler.cancel_event
cancel_event(s, event_id) ==
    IF event_id \in DOMAIN s.active_events
    THEN [s |-> [s EXCEPT !.objects[s.active_events[event_id]].callback = "none",
                          !.active_events = Remove(s.active_events, event_id),
                          !.stats.pending_events = @ - 1],
          ok |-> TRUE]
    ELSE [s |-> s, ok |-> FALSE]

\* advance_time that leaves the clock where it is
advance_time_frozen(s, delta_time) == s

\* APLScheduler.advance_time
advance_time(s, delta_time) ==
    IF s.paused THEN s ELSE [s EXCEPT !.current_time = @ + delta_time * s.time_scale]

\* DefaultEventHandler.handle_event answering True after a callback that raised
handle_event_true_after_raise(event) ==
    CASE event.callback = "none" -> [invoked |-> FALSE, success |-> TRUE]
      [] event.callback = "record" -> [invoked |-> TRUE, success |-> TRUE]
      [] event.callback = "raise" -> [invoked |-> TRUE, success |-> TRUE]
      [] event.callback = "spawn" -> [invoked |-> TRUE, success |-> TRUE]
      [] event.callback \in {"spawn_twice", "spawn_once"} -> [invoked |-> TRUE, success |-> TRUE]
      [] event.callback = "execute_action" -> [invoked |-> TRUE, success |-> TRUE]

\* DefaultEventHandler.handle_event: whether a callback was invoked and the value returned
handle_event(event) ==
    CASE event.callback = "none" -> [invoked |-> FALSE, success |-> TRUE]
      [] event.callback = "record" -> [invoked |-> TRUE, success |-> TRUE]
      [] event.callback = "raise" -> [invoked |-> TRUE, success |-> FALSE]
      [] event.callback = "spawn" -> [invoked |-> TRUE, success |-> TRUE]
      [] event.callback \in {"spawn_twice", "spawn_once"} -> [invoked |-> TRUE, success |-> TRUE]
      [] event.callback = "execute_action" -> [invoked |-> TRUE, success |-> TRUE]

\* the (scheduled_time, priority) of the events that are queued and active
Waiting(s) ==
    { <<s.objects[s.event_queue[i]].scheduled_time, s.objects[s.event_queue[i]].priority>> :
        i \in {j \in DOMAIN s.event_queue :
                  s.objects[s.event_queue[j]].event_id \in DOMAIN s.active_events} }

\* one invocation of a callback: the event, the time, the outcome and what was
\* still waiting at that moment
Invocation(s, ref, success) ==
    [ref |-> ref, event_id |-> s.objects[ref].event_id, at |-> s.current_time,
     due |-> s.objects[ref].scheduled_time, priority |-> s.objects[ref].priority,
     repeating |-> s.objects[ref].repeating, interval |-> s.objects[ref].interval,
     success |-> success, waiting |-> Waiting(s)]

\* the successful handler's branch re-queueing a repeating event two intervals
\* after the current time
Succeeded_requeued_two_intervals(s, ref, event) ==
    IF event.repeating /\ (event.max_repeats = -1 \/ event.repeat_count < event.max_repeats)
    THEN [s EXCEPT !.stats.processed_events = @ + 1,
                   !.objects[ref].repeat_count = @ + 1,
                   !.objects[ref].scheduled_time = s.current_time + 2 * event.interval,
                   !.event_queue = heappush([s.objects EXCEPT ![ref].scheduled_time =
                                                 s.current_time + 2 * event.interval],
                                            s.event_queue, ref)]
    ELSE IF event.event_id \in DOMAIN s.active_events
    THEN [s EXCEPT !.stats.processed_events = @ + 1,
                   !.active_events = Remove(s.active_events, event.event_id),
                   !.stats.pending_events = @ - 1]
    ELSE [s EXCEPT !.stats.processed_events = @ + 1]

\* the successful handler's branch re-queueing while the count has reached the budget
Succeeded_budget_inclusive(s, ref, event) ==
    IF event.repeating /\ (event.max_repeats = -1 \/ event.repeat_count <= event.max_repeats)
    THEN [s EXCEPT !.stats.processed_events = @ + 1,
                   !.objects[ref].repeat_count = @ + 1,
                   !.objects[ref].scheduled_time = s.current_time + event.interval,
                   !.event_queue = heappush([s.objects EXCEPT ![ref].scheduled_time =
                                                 s.current_time + event.interval],
                                            s.event_queue, ref)]
    ELSE IF event.event_id \in DOMAIN s.active_events
    THEN [s EXCEPT !.stats.processed_events = @ + 1,
                   !.active_events = Remove(s.active_events, event.event_id),
                   !.stats.pending_events = @ - 1]
    ELSE [s EXCEPT !.stats.processed_events = @ + 1]

\* process_events, lines 263-287: after a successful handler
Succeeded(s, ref, event) ==
    IF event.repeating /\ (event.max_repeats = -1 \/ event.repeat_count < event.max_repeats)
    THEN [s EXCEPT !.stats.processed_events = @ + 1,
                   !.objects[ref].repeat_count = @ + 1,
                   !.objects[ref].scheduled_time = s.current_time + event.interval,
                   !.event_queue = heappush([s.objects EXCEPT ![ref].scheduled_time =
                                                 s.current_time + event.interval],
                                            s.event_queue, ref)]
    ELSE IF event.event_id \in DOMAIN s.active_events
    THEN [s EXCEPT !.stats.processed_events = @ + 1,
                   !.active_events = Remove(s.active_events, event.event_id),
                   !.stats.pending_events = @ - 1]
    ELSE [s EXCEPT !.stats.processed_events = @ + 1]

\* event.callback(event, scheduler), called by handle_event: what the callback
\* does to the scheduler it is given; the callback "spawn" schedules a further
\* event of its kind that is due at once, "spawn_twice" a HIGH event due at once
\* whose callback schedules one more
event_callback(s, event) ==
    CASE event.callback = "spawn" ->
            schedule_event(s, s.event_counter + 1, 0, EventPriority.NORMAL, "spawn", FALSE, 0, -1)
      [] event.callback = "spawn_twice" ->
            schedule_event(s, s.event_counter + 1, 0, EventPriority.HIGH, "spawn_once", FALSE, 0, -1)
      [] event.callback = "spawn_once" ->
            schedule_event(s, s.event_counter + 1, 0, EventPriority.HIGH, "record", FALSE, 0, -1)
      [] OTHER -> s

\* process_events, lines 256-287: the event popped is skipped or handled
Popped(a, s, ref, handled) ==
    IF s.objects[ref].event_id \notin DOMAIN s.active_events
    THEN [a EXCEPT !.s = s, !.events_this_tick = @ + 1]
    ELSE [s |-> IF handled.success
                THEN Succeeded(event_callback(s, s.objects[ref]), ref, s.objects[ref]) ELSE s,
          processed_count |-> a.processed_count + (IF handled.success THEN 1 ELSE 0),
          events_this_tick |-> a.events_this_tick + 1,
          log |-> IF handled.invoked THEN Append(a.log, Invocation(s, ref, handled.success))
                  ELSE a.log]

\* process_events, line 254: heapq.heappop(self.event_queue)
AfterPop(a, popped) ==
    Popped(a, [a.s EXCEPT !.event_queue = popped.heap], popped.item,
           handle_event(a.s.objects[popped.item]))

RECURSIVE process_loop_strictly_due(_)
\* the while loop of process_events taking only events due before current_time
process_loop_strictly_due(a) ==
    IF /\ a.s.event_queue # <<>>
       /\ a.s.objects[a.s.event_queue[1]].scheduled_time < a.s.current_time
       /\ a.events_this_tick < a.s.max_events_per_tick
    THEN CHOOSE r \in {process_loop_strictly_due(b) : b \in {AfterPop(a, heappop(a.s.objects, a.s.event_queue))}} : TRUE
    ELSE a

RECURSIVE process_loop_cap_inclusive(_)
\* the while loop of process_events going on while events_this_tick has reached the cap
process_loop_cap_inclusive(a) ==
    IF /\ a.s.event_queue # <<>>
       /\ a.s.objects[a.s.event_queue[1]].scheduled_time <= a.s.current_time
       /\ a.events_this_tick <= a.s.max_events_per_tick
    THEN CHOOSE r \in {process_loop_cap_inclusive(b) : b \in {AfterPop(a, heappop(a.s.objects, a.s.event_queue))}} : TRUE
    ELSE a

RECURSIVE process_loop(_)
\* process_events, lines 250-287: the while loop (b is the state after one
\* iteration, computed once)
process_loop(a) ==
    IF /\ a.s.event_queue # <<>>
       /\ a.s.objects[a.s.event_queue[1]].scheduled_time <= a.s.current_time
       /\ a.events_this_tick < a.s.max_events_per_tick
    THEN CHOOSE r \in {process_loop(b) : b \in {AfterPop(a, heappop(a.s.objects, a.s.event_queue))}} : TRUE
    ELSE a

\* APLScheduler.process_events: the scheduler left, the count returned and the
\* callback invocations made
process_events(s) ==
    IF s.paused THEN [s |-> s, processed_count |-> 0, events_this_tick |-> 0, log |-> <<>>]
    ELSE process_loop([s |-> s, processed_count |-> 0, events_this_tick |-> 0, log |-> <<>>])

\* APLScheduler.tick
tick(s, delta_time) == process_events(advance_time(s, delta_time))

\* APLScheduler.pause, resume, stop, reset
pause(s) == [s EXCEPT !.paused = TRUE]
resume(s) == [s EXCEPT !.paused = FALSE]
stop(s) == [s EXCEPT !.running = FALSE]
reset(s) ==
    [s EXCEPT !.current_time = 0, !.event_queue = <<>>, !.objects = EmptyMap,
              !.active_events = EmptyMap, !.event_counter = 0, !.stats = SchedulerStats,
              !.running = FALSE, !.paused = FALSE]

\* the call made last (op, the value returned in ok or n, the callback
\* invocations in fired) and what the callbacks have noted of each event: the
\* number of invocations, the time of the last one, the events cancelled with
\* success and the one-shot events handled with success
NoTrace ==
    [op |-> "none", ok |-> FALSE, n |-> 0, fired |-> <<>>,
     count |-> EmptyMap, last |-> EmptyMap, cancelled |-> {}, completed |-> {}]

-----------------------------------------------------------------------------
(* action_registry.py: ActionRegistry with its category, tag and alias      *)
(* indices. actions maps a name to its RegisteredAction (the category and   *)
(* tags of its metadata, and its handler); categories maps every category   *)
(* to a set of names; tags maps a tag to a set of names; aliases maps an    *)
(* alias to a name.                                                         *)

\* ActionCategory, the members the registrations use
Categories == {"spell", "item"}

\* ActionRegistry.__init__
ActionRegistry_init ==
    [actions |-> EmptyMap, categories |-> [c \in Categories |-> {}], tags |-> EmptyMap,
     aliases |-> EmptyMap]

RECURSIVE TagsUpdated(_, _, _)
\* ActionRegistry.register, lines 181-185: name is added under each tag of todo
TagsUpdated(tags, todo, name) ==
    IF todo = {} THEN tags
    ELSE LET tag == CHOOSE t \in todo : TRUE IN
         TagsUpdated(Put(tags, tag, (IF tag \in DOMAIN tags THEN tags[tag] ELSE {}) \cup {name}),
                     todo \ {tag}, name)

\* ActionRegistry.register(name, handler, category, tags=tags)
register(r, name, handler, category, tags) ==
    [r |-> [r EXCEPT !.actions = Put(@, name, [name |-> name, category |-> category,
                                                tags |-> tags, handler |-> handler]),
                     !.categories[category] = @ \cup {name},
                     !.tags = TagsUpdated(@, tags, name)],
     ok |-> TRUE]

\* ActionRegistry.add_alias(alias, action_name)
add_alias(r, alias, action_name) ==
    IF action_name \notin DOMAIN r.actions THEN [r |-> r, ok |-> FALSE]
    ELSE [r |-> [r EXCEPT !.aliases = Put(@, alias, action_name)], ok |-> TRUE]

NoAction == [name |-> "", category |-> "", tags |-> {}, handler |-> 0]

\* ActionRegistry.get_action(name): the action, None (NoAction) or KeyError
get_action(r, name) ==
    IF name \in DOMAIN r.actions THEN [raised |-> "", value |-> r.actions[name]]
    ELSE IF name \in DOMAIN r.aliases
    THEN IF r.aliases[name] \in DOMAIN r.actions
         THEN [raised |-> "", value |-> r.actions[r.aliases[name]]]
         ELSE [raised |-> "KeyError", value |-> NoAction]
    ELSE [raised |-> "", value |-> NoAction]

\* [self.actions[name] for name in names]: the actions listed, or KeyError
Listed(r, names) ==
    IF names \subseteq DOMAIN r.actions
    THEN [raised |-> "", value |-> {r.actions[n] : n \in names}]
    ELSE [raised |-> "KeyError", value |-> {}]

\* ActionRegistry.get_actions_by_category(category)
get_actions_by_category(r, category) ==
    IF category \notin DOMAIN r.categories THEN [raised |-> "", value |-> {}]
    ELSE Listed(r, r.categories[category])

\* ActionRegistry.get_actions_by_tag(tag)
get_actions_by_tag(r, tag) ==
    IF tag \notin DOMAIN r.tags THEN [raised |-> "", value |-> {}]
    ELSE Listed(r, r.tags[tag])

\* ActionRegistry.unregister(name)
unregister(r, name) ==
    IF name \notin DOMAIN r.actions THEN [r |-> r, ok |-> FALSE]
    ELSE LET action == r.actions[name]
             left == {t \in DOMAIN r.tags : t \notin action.tags \/ r.tags[t] \ {name} # {}}
             aliases_to_keep == {a \in DOMAIN r.aliases : r.aliases[a] # name}
         IN  [r |-> [r EXCEPT !.categories[action.category] = @ \ {name},
                              !.tags = [t \in left |-> IF t \in action.tags THEN r.tags[t] \ {name}
                                                       ELSE r.tags[t]],
                              !.aliases = [a \in aliases_to_keep |-> r.aliases[a]],
                              !.actions = Remove(@, name)],
              ok |-> TRUE]

\* ActionRegistry.clear()
clear(r) ==
    [actions |-> EmptyMap, categories |-> [c \in Categories |-> {}], tags |-> EmptyMap,
     aliases |-> EmptyMap]

-----------------------------------------------------------------------------
(* engine/state_manager.py: BuffState and BuffManager. Item.__hash__ and     *)
(* Item.__eq__ (game_state.py) go by the id alone, so a set of Buff or of    *)
(* BuffState is a map from an id to the other fields.  An effect or an       *)
(* attribute name is kept in its parts: <<"id:", 7, "up">> is "id:7.up",     *)
(* <<"", "buff1", "">> is "buff1".                                           *)

\* Buff(name=..., id=..., icon=..., remain_ms=..., stock=...) without the id
Buff(name, icon, remain_ms, stock) ==
    [name |-> name, icon |-> icon, remain_ms |-> remain_ms, stock |-> stock]

\* empty_buff
empty_buff == [id |-> 0, name |-> "empty", icon |-> 0, stock |-> 0, remain_ms |-> 0]

\* the fields of Buff in the order of model_dump
BuffFields == <<"name", "icon", "remain_ms", "stock">>

\* Identifier.__init_subclass__ for BuffState, lines 48-52: the registered
\* properties that depend on a field (up on stock and remain_ms, remains on
\* remain_ms, stock on stock)
reverse_depends_on ==
    [k \in {"id", "name", "icon", "remain_ms", "stock"} |->
        CASE k = "remain_ms" -> {"up", "remains"}
          [] k = "stock" -> {"up", "stock"}
          [] OTHER -> {}]

\* an argument of update: an instance of a pydantic model with its fields, or a
\* value of another class (a str, an int)
ModelInstance(fields) == [is_model |-> TRUE, fields |-> fields]
NotAModel == [is_model |-> FALSE, fields |-> EmptyMap]

\* update reporting every field of the incoming model as changed
Identifier_update_reports_every_field(self, new_value) ==
    IF ~new_value.is_model
    THEN [raised |-> "TypeError", self |-> self, effects |-> {}, changes |-> EmptyMap]
    ELSE LET incoming == new_value.fields IN
         [raised |-> "",
          self |-> [k \in DOMAIN self |-> incoming[k]],
          effects |-> UNION {reverse_depends_on[k] : k \in DOMAIN incoming},
          changes |-> [k \in DOMAIN incoming |-> <<self[k], incoming[k]>>]]

\* Identifier.update(self, new_value), lines 54-76: the exception raised, the
\* object afterwards, the keys of effects and the changes
Identifier_update(self, new_value) ==
    IF ~new_value.is_model
    THEN [raised |-> "TypeError", self |-> self, effects |-> {}, changes |-> EmptyMap]
    ELSE LET incoming == new_value.fields
             changed == {k \in DOMAIN incoming : incoming[k] # self[k]}
         IN  [raised |-> "",
              self |-> [k \in DOMAIN self |-> IF k \in changed THEN incoming[k] ELSE self[k]],
              effects |-> UNION {reverse_depends_on[k] : k \in changed},
              changes |-> [k \in changed |-> <<self[k], incoming[k]>>]]

\* old_buff.update(new_b) as BuffManager.update calls it: the state afterwards,
\* the keys of effects and the fields changed
BuffState_update(self, new_value) ==
    [self |-> Identifier_update(self, ModelInstance(new_value)).self,
     effects |-> Identifier_update(self, ModelInstance(new_value)).effects,
     changes |-> DOMAIN Identifier_update(self, ModelInstance(new_value)).changes]

\* BuffManager.__init__
BuffManager_init == EmptyMap

\* BuffManager.update that reports nothing for the buffs it removes
BuffManager_update_silent_removal(buffs, snapshot) ==
    LET old_ids == DOMAIN buffs
        new_ids == DOMAIN snapshot
        updated == [i \in old_ids \cap new_ids |-> BuffState_update(buffs[i], snapshot[i])]
    IN  [buffs |-> [i \in new_ids |-> IF i \in old_ids THEN updated[i].self ELSE snapshot[i]],
         effects |-> {<<"id:", i, "">> : i \in new_ids \ old_ids}
                     \cup {<<"", snapshot[i].name, "">> : i \in new_ids \ old_ids}
                     \cup UNION {{<<"id:", i, e>> : e \in updated[i].effects} : i \in DOMAIN updated}
                     \cup UNION {{<<"", updated[i].self.name, e>> : e \in updated[i].effects} :
                                    i \in DOMAIN updated}]

\* BuffManager.update(buffs): self.buffs afterwards and the effects returned
BuffManager_update(buffs, snapshot) ==
    LET old_ids == DOMAIN buffs
        new_ids == DOMAIN snapshot
        updated == [i \in old_ids \cap new_ids |-> BuffState_update(buffs[i], snapshot[i])]
        removed == old_ids \ new_ids
        added == new_ids \ old_ids
    IN  [buffs |-> [i \in (old_ids \ removed) \cup added |->
                       IF i \in added THEN snapshot[i] ELSE updated[i].self],
         effects |-> {<<"id:", i, "">> : i \in added}
                     \cup {<<"", snapshot[i].name, "">> : i \in added}
                     \cup UNION {{<<"id:", i, e>> : e \in updated[i].effects} : i \in DOMAIN updated}
                     \cup UNION {{<<"", updated[i].self.name, e>> : e \in updated[i].effects} :
                                    i \in DOMAIN updated}
                     \cup {<<"id:", i, "">> : i \in removed}
                     \cup {<<"", buffs[i].name, "">> : i \in removed}]

\* id(attr), lines 5-8: the function is defined with the parameters (self, attr),
\* so a call with one argument raises TypeError; attr is <<"id:", n, "">> for
\* "id:<n>" and <<"", name, "">> for a name
id_function(args) ==
    IF Len(args) # 2 THEN [raised |-> "TypeError", value |-> 0]
    ELSE [raised |-> "", value |-> args[2][2]]

\* BuffManager.__getattr__(attr): the buff returned or the exception raised
BuffManager_getattr(buffs, attr) ==
    LET buff_id == id_function(<<attr>>) IN
    IF buff_id.raised # "" THEN [raised |-> buff_id.raised, value |-> empty_buff]
    ELSE IF attr[1] = "id:"
    THEN IF buff_id.value \in DOMAIN buffs
         THEN [raised |-> "", value |-> [id |-> buff_id.value] @@ buffs[buff_id.value]]
         ELSE [raised |-> "", value |-> empty_buff]
    ELSE IF \E i \in DOMAIN buffs : buffs[i].name = buff_id.value
    THEN LET i == CHOOSE i \in DOMAIN buffs : buffs[i].name = buff_id.value
         IN  [raised |-> "", value |-> [id |-> i] @@ buffs[i]]
    ELSE [raised |-> "", value |-> empty_buff]

-----------------------------------------------------------------------------
(* apl_system/lexer.py: APLLexer, over texts given as sequences of characters *)
(* (one-character strings); a token is its type and the characters of its    *)
(* value.  The texts are over letters, digits, blanks, newlines, '#', '$'    *)
(* and the operator characters: no quotes, so _read_string is not entered.   *)

Letters ==
    {"a", "b", "c", "d", "e", "f", "g", "h", "i", "j", "k", "l", "m", "n", "o", "p", "q", "r",
     "s", "t", "u", "v", "w", "x", "y", "z"}
Digits == {"0", "1", "2", "3", "4", "5", "6", "7", "8", "9"}

Token(type, value) == [type |-> type, value |-> value]

\* APLLexer.KEYWORDS
KEYWORDS ==
    (<<"a", "c", "t", "i", "o", "n", "s">> :> "ACTIONS")
    @@ (<<"i", "f">> :> "IF")
    @@ (<<"i", "n", "t", "e", "r", "r", "u", "p", "t", "_", "i", "f">> :> "INTERRUPT_IF")
    @@ (<<"t", "a", "r", "g", "e", "t", "_", "i", "f">> :> "TARGET_IF")
    @@ (<<"w", "a", "i", "t", "_", "o", "n", "_", "r", "e", "a", "d", "y">> :> "WAIT_ON_READY")
    @@ (<<"l", "i", "n", "e", "_", "c", "d">> :> "LINE_CD")

\* APLLexer.MULTI_CHAR_OPS, in the order they are tried
MULTI_CHAR_OPS ==
    << <<(<<"%", "%">>), "MODULOS">>, <<(<<"+", "=">>), "PLUS_ASSIGN">>,
       <<(<<"!", "=">>), "NOT_EQUAL">>, <<(<<"<", "=">>), "LESS_EQUAL">>,
       <<(<<">", "=">>), "GREATER_EQUAL">>, <<(<<"!", "~">>), "NOT_MATCH">> >>

\* APLLexer.SINGLE_CHAR_OPS
SINGLE_CHAR_OPS ==
    ("+" :> "PLUS") @@ ("-" :> "MINUS") @@ ("*" :> "MULTIPLY") @@ ("%" :> "MODULO")
    @@ ("=" :> "EQUAL") @@ ("<" :> "LESS") @@ (">" :> "GREATER") @@ ("~" :> "MATCH")
    @@ ("&" :> "AND") @@ ("|" :> "OR") @@ ("^" :> "XOR") @@ ("!" :> "NOT")
    @@ ("/" :> "SLASH") @@ ("." :> "DOT") @@ ("," :> "COMMA") @@ (":" :> "COLON")
    @@ (";" :> "SEMICOLON") @@ ("(" :> "LPAREN") @@ (")" :> "RPAREN")

RECURSIVE span(_, _, _)
\* the first position from pos on whose character is not in chars (the loops
\* `while self.pos < len(self.text) and ...: self._advance()`)
span(text, pos, chars) ==
    IF pos <= Len(text) /\ text[pos] \in chars THEN span(text, pos + 1, chars) ELSE pos

\* APLLexer._match_string
match_string(text, pos, target) ==
    /\ pos + Len(target) - 1 <= Len(text)
    /\ SubSeq(text, pos, pos + Len(target) - 1) = target

\* APLLexer._read_number: the position after the literal
read_number(text, pos) ==
    LET int_end == span(text, pos, Digits)
    IN  IF /\ int_end <= Len(text) /\ text[int_end] = "."
           /\ int_end + 1 <= Len(text) /\ text[int_end + 1] \in Digits
        THEN span(text, int_end + 1, Digits)
        ELSE int_end

\* APLLexer._read_identifier: the position after the identifier
read_identifier(text, pos) == span(text, pos, Letters \cup Digits \cup {"_"})

\* the multi-character operators that match at pos, by their index in MULTI_CHAR_OPS
MultiAt(text, pos) == {k \in DOMAIN MULTI_CHAR_OPS : match_string(text, pos, MULTI_CHAR_OPS[k][1])}

RECURSIVE tokenize_loop(_, _, _)
\* APLLexer.tokenize, lines 151-195: the while loop, from position pos with the
\* tokens made so far
tokenize_loop(text, at, tokens) ==
    LET pos == span(text, at, {" ", "\t", "\r"})
    IN  IF pos > Len(text) THEN [raised |-> "", tokens |-> tokens]
        ELSE IF text[pos] = "#"
        THEN tokenize_loop(text, span(text, pos, Letters \cup Digits \cup DOMAIN SINGLE_CHAR_OPS
                                                  \cup {" ", "\t", "\r", "#", "$", "_"}), tokens)
        ELSE IF text[pos] = "\n"
        THEN tokenize_loop(text, pos + 1, Append(tokens, Token("NEWLINE", <<"\n">>)))
        ELSE IF text[pos] \in Digits \/ (text[pos] = "." /\ pos + 1 <= Len(text) /\ text[pos + 1] \in Digits)
        THEN tokenize_loop(text, read_number(text, pos),
                           Append(tokens, Token("NUMBER", SubSeq(text, pos, read_number(text, pos) - 1))))
        ELSE IF text[pos] \in Letters \cup {"_"}
        THEN LET value == SubSeq(text, pos, read_identifier(text, pos) - 1)
             IN  tokenize_loop(text, read_identifier(text, pos),
                               Append(tokens, Token(IF value \in DOMAIN KEYWORDS THEN KEYWORDS[value]
                                                    ELSE "IDENTIFIER", value)))
        ELSE IF MultiAt(text, pos) # {}
        THEN LET k == CHOOSE i \in MultiAt(text, pos) : \A j \in MultiAt(text, pos) : i <= j
             IN  tokenize_loop(text, pos + Len(MULTI_CHAR_OPS[k][1]),
                               Append(tokens, Token(MULTI_CHAR_OPS[k][2], MULTI_CHAR_OPS[k][1])))
        ELSE IF text[pos] \in DOMAIN SINGLE_CHAR_OPS
        THEN tokenize_loop(text, pos + 1, Append(tokens, Token(SINGLE_CHAR_OPS[text[pos]], <<text[pos]>>)))
        ELSE [raised |-> "LexerError", tokens |-> tokens]

\* APLLexer.tokenize: the tokens with the EOF token added, or LexerError
tokenize(text) ==
    LET got == tokenize_loop(text, 1, <<>>)
    IN  IF got.raised # "" THEN got
        ELSE [raised |-> "", tokens |-> Append(got.tokens, Token("EOF", <<>>))]

-----------------------------------------------------------------------------
(* apl_system/parser.py: APLParser; current is the 1-based index of the token *)
(* that _peek returns                                                         *)

APLParser_init == [tokens |-> <<>>, current |-> 1]

\* APLParser._is_at_end
is_at_end(tokens, current) == current > Len(tokens) \/ tokens[current].type = "EOF"

\* APLParser._check
check(tokens, current, token_type) ==
    ~is_at_end(tokens, current) /\ tokens[current].type = token_type

\* APLParser._advance: the index after consuming the current token
advance(tokens, current) == IF is_at_end(tokens, current) THEN current ELSE current + 1

RECURSIVE skip_to_next_line(_, _)
\* APLParser._skip_to_next_line
skip_to_next_line(tokens, current) ==
    IF ~is_at_end(tokens, current) /\ ~check(tokens, current, "NEWLINE")
    THEN skip_to_next_line(tokens, advance(tokens, current))
    ELSE IF check(tokens, current, "NEWLINE") THEN advance(tokens, current) ELSE current

\* APLParser._parse_simple_value
parse_simple_value(tokens, current) ==
    IF \/ check(tokens, current, "NUMBER") \/ check(tokens, current, "STRING")
       \/ check(tokens, current, "IDENTIFIER")
    THEN [raised |-> "", value |-> tokens[current].value, current |-> advance(tokens, current)]
    ELSE [raised |-> "ParseError", value |-> <<>>, current |-> current]

\* APLParser._parse_primary: a number or a string is consumed and returned to
\* _parse_multiplication, whose loop test names TokenType.DOUBLE_MODULO (line
\* 236); an identifier is consumed and followed by a test of
\* TokenType.LEFT_PAREN (line 262), which any other token meets at line 275.
\* The enumeration TokenType of lexer.py has no such members, so the call
\* raises AttributeError whatever the tokens are
parse_primary(tokens, current) ==
    [raised |-> "AttributeError", value |-> NoExpr,
     current |-> IF \/ check(tokens, current, "NUMBER") \/ check(tokens, current, "STRING")
                    \/ check(tokens, current, "IDENTIFIER")
                 THEN advance(tokens, current) ELSE current]

RECURSIVE parse_unary(_, _)
\* APLParser._parse_unary: the operators NOT, PLUS and MINUS are consumed
parse_unary(tokens, current) ==
    IF \/ check(tokens, current, "NOT") \/ check(tokens, current, "PLUS")
       \/ check(tokens, current, "MINUS")
    THEN parse_unary(tokens, advance(tokens, current))
    ELSE parse_primary(tokens, current)

\* APLParser._parse_expression: the chain _parse_logical_or .. _parse_unary
parse_expression(tokens, current) == parse_unary(tokens, current)

\* the names of the options whose value is an expression
ExpressionOptions ==
    { <<"i", "f">>, <<"i", "n", "t", "e", "r", "r", "u", "p", "t", "_", "i", "f">>,
      <<"t", "a", "r", "g", "e", "t", "_", "i", "f">>,
      <<"w", "a", "i", "t", "_", "o", "n", "_", "r", "e", "a", "d", "y">>,
      <<"l", "i", "n", "e", "_", "c", "d">> }

\* ast_nodes.ActionLine as the parser builds it: exprs maps the names of the
\* expression options given to their expressions (absent ones are None)
ParsedActionLine(action_name, options, exprs) ==
    [action_name |-> action_name, options |-> options, exprs |-> exprs]

RECURSIVE parse_options(_, _, _, _)
\* APLParser._parse_action_line, lines 104-137: the loop over the
\* comma-separated options
parse_options(tokens, current, options, exprs) ==
    IF ~check(tokens, current, "COMMA")
    THEN [raised |-> "", current |-> current, options |-> options, exprs |-> exprs]
    ELSE IF ~check(tokens, current + 1, "IDENTIFIER")
    THEN [raised |-> "ParseError", current |-> current + 1, options |-> options, exprs |-> exprs]
    ELSE IF ~check(tokens, current + 2, "ASSIGN")
    THEN [raised |-> "ParseError", current |-> current + 2, options |-> options, exprs |-> exprs]
    ELSE LET option_name == tokens[current + 1].value
             expr == parse_expression(tokens, current + 3)
             value == parse_simple_value(tokens, current + 3)
         IN  IF option_name \in ExpressionOptions
             THEN IF expr.raised # ""
                  THEN [raised |-> expr.raised, current |-> expr.current,
                        options |-> options, exprs |-> exprs]
                  ELSE parse_options(tokens, expr.current, options, Put(exprs, option_name, expr.value))
             ELSE IF value.raised # ""
                  THEN [raised |-> value.raised, current |-> value.current,
                        options |-> options, exprs |-> exprs]
                  ELSE parse_options(tokens, value.current, Put(options, option_name, value.value), exprs)

\* APLParser._parse_action_line: the line built and the index after it, or the
\* exception raised and the index where the parser stands
parse_action_line(tokens, current) ==
    IF ~check(tokens, current, "SLASH")
    THEN [raised |-> "ParseError", current |-> current, line |-> <<>>]
    ELSE IF ~check(tokens, current + 1, "IDENTIFIER")
    THEN [raised |-> "ParseError", current |-> current + 1, line |-> <<>>]
    ELSE LET got == parse_options(tokens, current + 2, EmptyMap, EmptyMap)
         IN  IF got.raised # ""
             THEN [raised |-> got.raised, current |-> got.current, line |-> <<>>]
             ELSE [raised |-> "",
                   current |-> IF check(tokens, got.current, "NEWLINE")
                               THEN advance(tokens, got.current) ELSE got.current,
                   line |-> ParsedActionLine(tokens[current + 1].value, got.options, got.exprs)]

RECURSIVE parse_loop(_, _, _, _)
\* APLParser.parse, lines 60-74: the while loop, with the lines added and the
\* number of warnings printed so far
parse_loop(tokens, current, lines, warnings) ==
    IF is_at_end(tokens, current)
    THEN [raised |-> "", lines |-> lines, warnings |-> warnings, current |-> current]
    ELSE IF check(tokens, current, "NEWLINE") \/ check(tokens, current, "COMMENT")
    THEN parse_loop(tokens, advance(tokens, current), lines, warnings)
    ELSE LET got == parse_action_line(tokens, current)
         IN  IF got.raised = ""
             THEN parse_loop(tokens, got.current, Append(lines, got.line), warnings)
             ELSE IF got.raised = "ParseError"
             THEN parse_loop(tokens, skip_to_next_line(tokens, got.current), lines, warnings + 1)
             ELSE [raised |-> got.raised, lines |-> lines, warnings |-> warnings,
                   current |-> got.current]

\* APLParser.parse: the lines of the ActionList returned, or the exception
\* that leaves the call
parse(text) ==
    IF tokenize(text).raised # ""
    THEN [raised |-> tokenize(text).raised, lines |-> <<>>, warnings |-> 0, current |-> 1]
    ELSE parse_loop(tokenize(text).tokens, 1, <<>>, 0)

-----------------------------------------------------------------------------
(* The decision cycle: an executor over a GameContext and a registry.       *)

ManaValues == {Num(10), Num(40), Num(80)}
ActionNames == {"fireball", "frostbolt", "arcane_shot"}

\* fireball,if=mana>50 / frostbolt,if=mana>30
TwoLineScript == <<ActionLine("fireball", 4), ActionLine("frostbolt", 5)>>
\* two lines of the same action with different conditions
SameNameScript == <<ActionLine("fireball", 4), ActionLine("fireball", 5)>>
\* three lines; with mana = 40 and no buff only the second condition holds
ThreeLineScript ==
    <<ActionLine("fireball", 4), ActionLine("frostbolt", 5), ActionLine("arcane_shot", 8)>>
\* a line without a condition after a line whose action is not registered
UnconditionalScript == <<ActionLine("pet_attack", 5), ActionLine("arcane_shot", NoExpr)>>
Scripts == {TwoLineScript, SameNameScript, ThreeLineScript, UnconditionalScript}

NoEvalCtx == [state |-> [buffs |-> EmptyMap, target_debuffs |-> EmptyMap],
              modules |-> EmptyMap, resolvers |-> <<>>]

InitExec ==
    /\ context = GameContext_init
    /\ evalctx = NoEvalCtx
    /\ evaluator = ExpressionEvaluator_init
    /\ executor = APLExecutor_init
    /\ registry = [n \in ActionNames |-> RegisteredAction("yes", "success")]
    /\ result = NoResult
    /\ scheduler = APLScheduler_init
    /\ trace = NoTrace
    /\ action_registry = ActionRegistry_init
    /\ buff_manager = BuffManager_init
    /\ parser = APLParser_init
    /\ buff_state = empty_buff
    /\ rotation = APLRotationScheduler_init

\* executor.load_apl(apl)
LoadApl(apl) ==
    /\ executor.total_executions = 0
    /\ LET got == load_apl(executor, registry, apl) IN
       /\ executor' = got.ex
       /\ result' = [NoResult EXCEPT !.op = "load_apl", !.error = ~got.ok]
    /\ UNCHANGED <<context, evalctx, evaluator, registry, scheduler, trace,
                 action_registry, buff_manager, parser, buff_state, rotation>>

\* context.set_resource("mana", v), as the tests change the state between cycles
SetResource(v) ==
    /\ context' = GameContext_set_resource(context, v)
    /\ result' = [NoResult EXCEPT !.op = "set_resource"]
    /\ UNCHANGED <<evalctx, evaluator, executor, registry, scheduler, trace,
                 action_registry, buff_manager, parser, buff_state, rotation>>

\* the handler of an action becomes ready or not ready
SetReady(name, can) ==
    /\ registry[name].can # can
    /\ registry' = [registry EXCEPT ![name].can = can]
    /\ result' = [NoResult EXCEPT !.op = "set_ready"]
    /\ UNCHANGED <<context, evalctx, evaluator, executor, scheduler, trace,
                 action_registry, buff_manager, parser, buff_state, rotation>>

\* context.update(current_time + dt)
AdvanceTime(dt) ==
    /\ context.current_time + dt <= MaxTime
    /\ context' = GameContext_update(context, context.current_time + dt)
    /\ result' = [NoResult EXCEPT !.op = "update"]
    /\ UNCHANGED <<evalctx, evaluator, executor, registry, scheduler, trace,
                 action_registry, buff_manager, parser, buff_state, rotation>>

\* executor.execute_next_action()
ExecuteNextAction ==
    /\ executor.total_executions < MaxCycles
    /\ evaluator.stats.total_evaluations < MaxEvals
    /\ LET got == execute_next_action(evaluator, context, registry, executor) IN
       /\ evaluator' = got.ev
       /\ registry' = got.reg
       /\ executor' = got.ex
       /\ result' = got.result
    /\ UNCHANGED <<context, evalctx, scheduler, trace,
                 action_registry, buff_manager, parser, buff_state, rotation>>

NextExec ==
    \/ \E apl \in Scripts : LoadApl(apl)
    \/ \E v \in ManaValues : SetResource(v)
    \/ \E n \in {"fireball", "frostbolt"}, can \in {"yes", "no"} : SetReady(n, can)
    \/ AdvanceTime(3)
    \/ ExecuteNextAction

SpecExec == InitExec /\ [][NextExec]_vars

\* the registries of the cycle specification: every action registered, the
\* execute of each handler either returning SUCCESS or raising
HandlerRegistries ==
    {[n \in ActionNames |-> RegisteredAction("yes", exec[n])] :
        exec \in [ActionNames -> {"success", "raise"}]}

InitCycle ==
    /\ context = GameContext_init
    /\ evalctx = NoEvalCtx
    /\ evaluator = ExpressionEvaluator_init
    /\ executor = APLExecutor_init
    /\ registry \in HandlerRegistries
    /\ result = NoResult
    /\ scheduler = APLScheduler_init
    /\ trace = NoTrace
    /\ action_registry = ActionRegistry_init
    /\ buff_manager = BuffManager_init
    /\ parser = APLParser_init
    /\ buff_state = empty_buff
    /\ rotation = APLRotationScheduler_init

NextCycle ==
    \/ \E apl \in Scripts : LoadApl(apl)
    \/ \E v \in ManaValues : SetResource(v)
    \/ ExecuteNextAction

SpecCycle == InitCycle /\ [][NextCycle]_vars

-----------------------------------------------------------------------------
(* Properties of the decision cycle *)

Cycle == result.op = "execute_next_action"

\* the line at position i passes both checks on the current state: its action is
\* registered, its if condition is absent or has a non-zero value, and the
\* handler's can_execute holds
LinePasses(i) ==
    LET line == executor.current_apl[i] IN
    /\ Registered(registry, line.action_name)
    /\ \/ line.if_expr = NoExpr
       \/ LET v == Eval(line.if_expr, context) IN ~v.error /\ v.value # 0
    /\ registry[line.action_name].can = "yes"

PassingLines == {i \in DOMAIN executor.current_apl : LinePasses(i)}
FirstPassing == CHOOSE i \in PassingLines : \A j \in PassingLines : i <= j

\* C1: a decision cycle selects the first line, in list order, whose if condition
\* is non-zero (or absent) and whose can_execute holds, and selects no action when
\* no line passes both checks.
FirstFitSelection ==
    (Cycle /\ ~result.error) =>
        IF PassingLines = {}
        THEN result.selected = 0 /\ result.action_name = ""
        ELSE /\ result.selected = FirstPassing
             /\ result.action_name = executor.current_apl[FirstPassing].action_name

\* C2: with the script fireball,if=mana>50 / frostbolt,if=mana>30 and both handlers
\* ready, every cycle selects by the mana of that cycle: fireball at 80,
\* frostbolt at 40, nothing at 10, whatever the cycles before it selected.
TwoLineScenario ==
    ( /\ Cycle /\ ~result.error
      /\ executor.current_apl = TwoLineScript
      /\ registry["fireball"].can = "yes" /\ registry["frostbolt"].can = "yes"
      /\ context.mana.current \in ManaValues )
    => result.action_name =
          CASE context.mana.current = Num(80) -> "fireball"
            [] context.mana.current = Num(40) -> "frostbolt"
            [] context.mana.current = Num(10) -> ""

\* the number of conditions a line carries
ConditionCount(line) ==
    Cardinality({c \in {"if", "target_if", "wait_on_ready", "line_cd"} : ConditionExpr(line, c) # NoExpr})

RECURSIVE ConditionsUpTo(_, _)
ConditionsUpTo(apl, k) == IF k = 0 THEN 0 ELSE ConditionCount(apl[k]) + ConditionsUpTo(apl, k - 1)

\* the evaluator calls in a log
EvaluateCalls(log) == {i \in DOMAIN log : log[i].call \in {"cache_hit", "cache_miss"}}

\* C3: in a cycle that selects line k the scan stops at line k: exactly the
\* lines 1..k are considered, in order, none of the lines before k passed, and no
\* condition and no readiness check of a later line is evaluated.
StopsAtFirstMatch ==
    (Cycle /\ result.selected # 0) =>
        LET k == result.selected IN
        /\ result.actions_considered = k
        /\ Len(result.evaluations) = k
        /\ \A i \in 1..k : result.evaluations[i].index = i
        /\ \A i \in 1..(k - 1) : ~result.evaluations[i].can_execute
        /\ Cardinality(EvaluateCalls(result.log)) <= ConditionsUpTo(executor.current_apl, k)
        /\ result.conditions_evaluated <= ConditionsUpTo(executor.current_apl, k)
        /\ Cardinality({i \in DOMAIN result.evaluations : result.evaluations[i].asked}) <= k

\* a cycle over three lines of which only the second passes selects the second
SecondOfThreeSelected ==
    /\ Cycle
    /\ executor.current_apl = ThreeLineScript
    /\ PassingLines = {2}
    /\ result.selected = 2

\* C4: a value served from the cache was computed from an expression of the same
\* structure as the one asked for; and in a cycle that starts with an empty cache
\* every line's if condition is answered with the value of its own expression,
\* also when two lines share an action name.
CacheKeyedByStructure ==
    /\ \A i \in DOMAIN result.log :
          result.log[i].call = "cache_hit" => result.log[i].source = result.log[i].what
    /\ (Cycle /\ result.before = EmptyMap) =>
          \A i \in DOMAIN result.evaluations :
             LET e == result.evaluations[i] IN
             "if" \in DOMAIN e.condition_results =>
                e.condition_results["if"]
                   = Eval(executor.current_apl[e.index].if_expr, context).value

-----------------------------------------------------------------------------
(* The evaluator's cache: one evaluator over a GameContext whose state is    *)
(* changed by its mutators, aged by update, and whose cached values are      *)
(* dropped by invalidate_dependencies.                                       *)

\* mana > 50, buff.steady_focus.stacks > 0, a second mana > 50
CacheExprs == {4, 8, 9}

\* the sets of changed identifiers the state provider hands over: roots and full paths
ChangedSets ==
    { {<<"mana">>}, {<<"buff", ".", "steady_focus">>},
      {<<"buff", ".", "steady_focus", ".", "stacks">>} }

InitCache ==
    /\ context = GameContext_init
    /\ evalctx = NoEvalCtx
    /\ evaluator = ExpressionEvaluator_init
    /\ executor = APLExecutor_init
    /\ registry = EmptyMap
    /\ result = NoResult
    /\ scheduler = APLScheduler_init
    /\ trace = NoTrace
    /\ action_registry = ActionRegistry_init
    /\ buff_manager = BuffManager_init
    /\ parser = APLParser_init
    /\ buff_state = empty_buff
    /\ rotation = APLRotationScheduler_init

\* evaluator.evaluate(expr)
Evaluate(e) ==
    /\ evaluator.stats.total_evaluations < MaxEvals
    /\ LET got == evaluate(evaluator, context, e, NoKey) IN
       /\ evaluator' = got.ev
       /\ result' = [NoResult EXCEPT !.op = "evaluate", !.expr = e,
                                     !.key = generate_cache_key(e),
                                     !.value = got.value, !.raised = got.error,
                                     !.hit = got.hit, !.log = got.log,
                                     !.before = evaluator.cache]
    /\ UNCHANGED <<context, evalctx, executor, registry, scheduler, trace,
                 action_registry, buff_manager, parser, buff_state, rotation>>

\* context.add_buff("steady_focus", 15.0, stacks)
AddBuff(stacks) ==
    /\ context' = GameContext_add_buff(context, "steady_focus", 15 * TicksPerSecond, stacks)
    /\ context' # context
    /\ result' = [NoResult EXCEPT !.op = "add_buff"]
    /\ UNCHANGED <<evalctx, evaluator, executor, registry, scheduler, trace,
                 action_registry, buff_manager, parser, buff_state, rotation>>

\* context.remove_buff("steady_focus")
RemoveBuff ==
    /\ "steady_focus" \in DOMAIN context.buffs
    /\ context' = GameContext_remove_buff(context, "steady_focus")
    /\ result' = [NoResult EXCEPT !.op = "remove_buff"]
    /\ UNCHANGED <<evalctx, evaluator, executor, registry, scheduler, trace,
                 action_registry, buff_manager, parser, buff_state, rotation>>

\* evaluator.invalidate_dependencies(changed)
InvalidateDependencies(changed) ==
    /\ evaluator' = invalidate_dependencies(evaluator, changed)
    /\ result' = [NoResult EXCEPT !.op = "invalidate_dependencies", !.changed = changed,
                                  !.before = evaluator.cache]
    /\ UNCHANGED <<context, evalctx, executor, registry, scheduler, trace,
                 action_registry, buff_manager, parser, buff_state, rotation>>

NextCache ==
    \/ \E e \in CacheExprs : Evaluate(e)
    \/ \E v \in {Num(40), Num(80)} : SetResource(v)
    \/ AddBuff(1)
    \/ RemoveBuff
    \/ \E dt \in {2, 3} : AdvanceTime(dt)
    \/ \E changed \in ChangedSets : InvalidateDependencies(changed)

SpecCache == InitCache /\ [][NextCache]_vars

-----------------------------------------------------------------------------
(* Properties of the cache *)

Evaluated == result.op = "evaluate" /\ ~result.raised

\* a changed root covers a dependency path when it is the path or a prefix of it
\* ending at a segment boundary
Covers(root, dep) == Len(root) <= Len(dep) /\ SubSeq(dep, 1, Len(root)) = root

Intersects(changed, dependencies) == \E r \in changed, d \in dependencies : Covers(r, d)

\* the entry the evaluation found under its key was at most cache_ttl old
FoundFresh(r, now) ==
    r.key \in DOMAIN r.before /\ now - r.before[r.key].timestamp <= cache_ttl

\* C5: an evaluation that finds the value of an earlier evaluation of its expression,
\* at most TTL old and not reported changed, is a cache hit that returns that value
\* without evaluating anything; an evaluation that follows an update which
\* reported one of the expression's dependencies changed is a cache miss and returns
\* the value computed from the current state.
CacheProtocol ==
    [][ (result'.op = "evaluate" /\ ~result'.raised) =>
          LET reported == /\ result.op = "invalidate_dependencies"
                          /\ Intersects(result.changed, Range(get_dependencies(result'.expr)))
          IN  /\ (FoundFresh(result', context'.current_time) /\ ~reported) =>
                    /\ result'.hit
                    /\ result'.value = result'.before[result'.key].value
                    /\ Len(result'.log) = 1
              /\ reported =>
                    /\ ~result'.hit
                    /\ result'.value = Eval(result'.expr, context').value ]_vars

\* C6: an evaluator with any history of evaluations and state changes returns, for
\* every expression, the value a freshly constructed evaluator returns on the same
\* context at the same time.
EvaluateDeterministic ==
    \A e \in CacheExprs :
        evaluate(evaluator, context, e, NoKey).value
            = evaluate(ExpressionEvaluator_init, context, e, NoKey).value

\* C7: an evaluation is a cache hit exactly when it finds an entry aged at most the
\* TTL (an entry aged exactly the TTL included); a hit returns the entry's value and
\* leaves its timestamp as it was; an evaluation that finds an older entry is a miss
\* that replaces it by the value computed now, stamped with the current time.
TTLInvariant ==
    Evaluated =>
        LET k == result.key
            b == result.before
            now == context.current_time
        IN  /\ result.hit <=> FoundFresh(result, now)
            /\ result.hit =>
                  /\ now - b[k].timestamp <= cache_ttl
                  /\ result.value = b[k].value
                  /\ evaluator.cache[k].timestamp = b[k].timestamp
                  /\ evaluator.cache[k].hit_count = b[k].hit_count + 1
            /\ ~result.hit =>
                  /\ result.value = Eval(result.expr, context).value
                  /\ k \in DOMAIN evaluator.cache
                  /\ evaluator.cache[k].timestamp = now
                  /\ evaluator.cache[k].value = result.value
                  /\ evaluator.cache[k].hit_count = 0

\* an evaluation served from an entry aged exactly the TTL
HitAtExactlyTTL ==
    /\ Evaluated /\ result.hit
    /\ context.current_time - result.before[result.key].timestamp = cache_ttl

\* C8: after invalidate_dependencies(changed) the cache holds no entry with a
\* dependency covered by a changed root, and every entry whose dependencies are
\* disjoint from the changed set is still there, unchanged.
InvalidationByRoots ==
    result.op = "invalidate_dependencies" =>
        \A k \in DOMAIN result.before :
            IF Intersects(result.changed, result.before[k].dependencies)
            THEN k \notin DOMAIN evaluator.cache
            ELSE k \in DOMAIN evaluator.cache /\ evaluator.cache[k] = result.before[k]

-----------------------------------------------------------------------------
(* Evaluation as a function of the expression and the context: the inputs  *)
(* are drawn in the initial state and the two evaluators are applied.      *)

\* the expressions given to ExprNode.evaluate of ast_nodes.py
NodeExprs == {8, 12, 13, 14, 15, 16, 17, 18, 19, 20, 21, 22, 23, 24, 39}
\* the expressions given to Expr.eval of apl.py
AplExprs == {16, 18, 24, 27, 29, 30, 31, 32, 33, 34, 35, 36, 37, 40, 41, 42, 43}

\* GameContext states: mana 10, 40 or 80, steady_focus absent or present
EvalContexts ==
    { GameContext_set_resource(c, v) :
        v \in ManaValues,
        c \in {GameContext_init,
               GameContext_add_buff(GameContext_init, "steady_focus", 15 * TicksPerSecond, 1)} }

BuffData(remains, stacks) == [present |-> TRUE, remains |-> remains, stacks |-> stacks]

\* modules and resolvers as apl.py's demo registers them
DemoModules == [p \in {"buff", "debuff"} |-> [class |-> "BuffModule", htype |-> "buff_inst", names |-> {}]]
Resolver(class) == [class |-> class, types |-> {}, attrs |-> {}, value |-> 0, consumed |-> 1, to |-> ""]
DemoResolvers == <<Resolver("BuffAttrResolver"), Resolver("ExampleNestedAttrResolver")>>

\* ... extended by a module pet whose get_handle returns None for a pet it does not
\* know, a module totem that keeps ModuleBase.get_handle, and a resolver for the
\* attribute happy of a pet
ExtendedModules ==
    [p \in {"buff", "debuff", "pet", "totem"} |->
        CASE p \in {"buff", "debuff"} -> DemoModules[p]
          [] p = "pet" -> [class |-> "OptionalModule", htype |-> "pet_inst", names |-> {"wolf"}]
          [] p = "totem" -> [class |-> "ModuleBase", htype |-> "", names |-> {}]]
ExtendedResolvers ==
    DemoResolvers \o
    << [class |-> "NumberResolver", types |-> {"pet_inst"}, attrs |-> {"happy"},
        value |-> One, consumed |-> 1, to |-> ""] >>

\* ... and with a resolver registered first for the attributes happy and mood of
\* any handle type
WildcardResolvers ==
    << [class |-> "NumberResolver", types |-> {"*"}, attrs |-> {"happy", "mood"},
        value |-> Num(2), consumed |-> 1, to |-> ""] >> \o ExtendedResolvers

\* EvalContext states
EvalConfigs ==
    { [state |-> [buffs |-> b, target_debuffs |-> d], modules |-> m.modules, resolvers |-> m.resolvers] :
        b \in {EmptyMap, [n \in {"steady_focus"} |-> BuffData(Num(5), Num(2))]},
        d \in {EmptyMap, [n \in {"vulnerable"} |-> BuffData(Num(3), Num(1))]},
        m \in {[modules |-> DemoModules, resolvers |-> DemoResolvers],
               [modules |-> ExtendedModules, resolvers |-> ExtendedResolvers],
               [modules |-> ExtendedModules, resolvers |-> WildcardResolvers]} }

InitEval ==
    /\ context \in EvalContexts
    /\ evalctx \in EvalConfigs
    /\ evaluator = ExpressionEvaluator_init
    /\ executor = APLExecutor_init
    /\ registry = EmptyMap
    /\ result = NoResult
    /\ scheduler = APLScheduler_init
    /\ trace = NoTrace
    /\ action_registry = ActionRegistry_init
    /\ buff_manager = BuffManager_init
    /\ parser = APLParser_init
    /\ buff_state = empty_buff
    /\ rotation = APLRotationScheduler_init

\* expr.evaluate(context), ast_nodes.py
NodeEvaluate(e) ==
    /\ LET got == Eval(e, context) IN
       result' = [NoResult EXCEPT !.op = "node_evaluate", !.expr = e, !.value = got.value,
                                  !.raised = got.error, !.log = got.log]
    /\ UNCHANGED <<context, evalctx, evaluator, executor, registry, scheduler, trace,
                 action_registry, buff_manager, parser, buff_state, rotation>>

\* expr.eval(ctx), apl.py
ExprEvalCall(e) ==
    /\ LET got == ExprEval(e, evalctx) IN
       result' = [NoResult EXCEPT !.op = "expr_eval", !.expr = e, !.value = got.value,
                                  !.raised = got.error, !.log = got.log]
    /\ UNCHANGED <<context, evalctx, evaluator, executor, registry, scheduler, trace,
                 action_registry, buff_manager, parser, buff_state, rotation>>

NextEval ==
    \/ \E e \in NodeExprs : NodeEvaluate(e)
    \/ \E e \in AplExprs : ExprEvalCall(e)

SpecEval == InitEval /\ [][NextEval]_vars

-----------------------------------------------------------------------------
(* Properties of evaluation *)

Evaluation == result.op \in {"node_evaluate", "expr_eval"}

\* what the evaluator that produced result yields for the sub-expression e
SubEval(e) == IF result.op = "node_evaluate" THEN Eval(e, context) ELSE ExprEval(e, evalctx)

\* the spellings of the short-circuit operators in the evaluator that produced result
AndOps == IF result.op = "node_evaluate" THEN {"&"} ELSE {"&", "and"}
OrOps == IF result.op = "node_evaluate" THEN {"|"} ELSE {"|", "or"}

RECURSIVE Symbols(_)
\* the identifier paths and function names that occur in e
Symbols(e) ==
    LET n == Nodes[e] IN
    (IF n.kind = "id" THEN {Join(n.parts)} ELSE IF n.kind = "call" THEN {<<n.op>>} ELSE {})
        \cup UNION {Symbols(n.args[i]) : i \in DOMAIN n.args}

\* C9: when the left side of a & b evaluates to 0, or the left side of a | b to
\* non-zero, the evaluation makes exactly the calls of the left side - no
\* identifier lookup and no function call that occurs only in b - does not raise
\* whatever b would do, and yields 0, respectively 1; when b is evaluated the
\* result is the 0/1 value of the truth table.
ShortCircuit ==
    (Evaluation /\ Nodes[result.expr].kind = "bin" /\ Nodes[result.expr].op \in AndOps \cup OrOps) =>
        LET n == Nodes[result.expr]
            a == SubEval(n.args[1])
            b == SubEval(n.args[2])
            isAnd == n.op \in AndOps
            skipped == ~a.error /\ (IF isAnd THEN a.value = 0 ELSE a.value # 0)
        IN  /\ skipped =>
                  /\ ~result.raised
                  /\ result.value = (IF isAnd THEN 0 ELSE One)
                  /\ result.log = a.log
                  /\ \A i \in DOMAIN result.log :
                        result.log[i].what \notin Symbols(n.args[2]) \ Symbols(n.args[1])
            /\ (~a.error /\ ~skipped /\ ~b.error) =>
                  /\ ~result.raised
                  /\ result.value = (IF isAnd THEN Truth(a.value # 0 /\ b.value # 0)
                                              ELSE Truth(a.value # 0 \/ b.value # 0))
                  /\ result.log = a.log \o b.log

\* mana > 50 & probe() + target.distance with mana at most 50: the left side is 0
\* and the right side, had it been evaluated, would have called probe
ShortCircuitedAnd ==
    /\ result.op = "node_evaluate" /\ result.expr = 13
    /\ Eval(4, context).value = 0
    /\ Eval(12, context).log # <<>>
    /\ result.value = 0

\* identifiers that name nothing in any of the contexts: an unknown root
\* (nosuch.thing), an unknown attribute (mana.nosuch, buff.steady_focus.nosuch,
\* buff.steady_focus.owner.id), an unknown instance (buff.nosuch.up, pet.rex.happy)
\* and one whose module cannot produce a handle (totem.fire.up)
UnknownIdents == {16, 17, 24, 32, 33, 35, 37}

RECURSIVE Plain(_)
\* e is built from identifiers and literals with operators its evaluator knows
Plain(e) ==
    LET n == Nodes[e] IN
    CASE n.kind \in {"lit", "id"} -> TRUE
      [] n.kind = "un" -> result.op = "node_evaluate" /\ n.op \in {"+", "-", "!"} /\ Plain(n.args[1])
      [] n.kind = "bin" ->
            /\ n.op \in AndOps \cup OrOps
                          \cup (IF result.op = "node_evaluate" THEN BinaryOps ELSE Binary_ops)
            /\ Plain(n.args[1]) /\ Plain(n.args[2])
      [] n.kind = "call" -> FALSE

\* C10: an identifier whose root, instance or attribute is unknown, or whose
\* resolution raises, evaluates to 0.0, and an expression built from identifiers,
\* literals and operators always yields a number: no identifier aborts it.
UnknownIdentifiersPermissive ==
    Evaluation =>
        /\ result.expr \in UnknownIdents => ~result.raised /\ result.value = 0
        /\ Plain(result.expr) => ~result.raised
        /\ result.expr \in {18, 34} => ~result.raised /\ result.value = Num(50)

\* the resolvers of evalctx registered for (handle_type, attr_name), in registration order
RegisteredFor(handle_type, attr_name) ==
    {i \in DOMAIN evalctx.resolvers : can_resolve(evalctx.resolvers[i], handle_type, attr_name)}
FirstOf(S) == CHOOSE i \in S : \A j \in S : i <= j

\* the numeric result of resolver i for the attribute of the handle
NumericResult(i, handle, attr) == resolve(evalctx.resolvers[i], handle, <<attr>>)

\* C11: resolving root.name.attr, where the module of root returns a handle of
\* type T, yields the number of the first resolver registered for (T, attr);
\* only when there is none, the number of the first resolver registered for
\* ("*", attr); and 0 when neither exists or root has no module.
ChainResolution ==
    (result.op = "expr_eval" /\ Nodes[result.expr].kind = "id" /\ Len(Nodes[result.expr].parts) = 3) =>
        LET parts == Nodes[result.expr].parts
            module == ModuleRegistry_get(evalctx.modules, parts[1])
            got == get_handle(module, evalctx.state, parts[2])
            specific == RegisteredFor(got.handle.htype, parts[3])
            wildcard == RegisteredFor("*", parts[3])
            chosen == IF specific # {} THEN FirstOf(specific) ELSE FirstOf(wildcard)
        IN  IF parts[1] \notin DOMAIN evalctx.modules
            THEN ~result.raised /\ result.value = 0
            ELSE (~got.raised /\ ~got.handle.none) =>
                    IF specific = {} /\ wildcard = {}
                    THEN ~result.raised /\ result.value = 0
                    ELSE NumericResult(chosen, got.handle, parts[3]).kind = "number" =>
                            /\ ~result.raised
                            /\ result.value = NumericResult(chosen, got.handle, parts[3]).num

\* pet.wolf.happy resolved where happy has a resolver for pet_inst and, registered
\* before it, one for any type: the value is that of the resolver for pet_inst
SpecificBeforeWildcard ==
    /\ result.op = "expr_eval" /\ result.expr = 41
    /\ RegisteredFor("*", "happy") # {}
    /\ RegisteredFor("pet_inst", "happy") # {}
    /\ FirstOf(RegisteredFor("*", "happy")) < FirstOf(RegisteredFor("pet_inst", "happy"))
    /\ result.value = One

-----------------------------------------------------------------------------
(* The scheduler driven by a client: events and timers are scheduled and    *)
(* cancelled, time is advanced, events are processed. run_for_duration is   *)
(* followed iteration by iteration; the client is single-threaded and calls *)
(* an operation when the previous call has returned.                        *)

others == <<context, evalctx, evaluator, executor, registry, result,
            action_registry, buff_manager, parser, buff_state, rotation>>

Idle == scheduler.call.name = "none"

\* the number of invocations of the callback of ref in log
Count(log, ref) == Cardinality({i \in DOMAIN log : log[i].ref = ref})
\* the time of the last of them
LastAt(log, ref) ==
    log[CHOOSE i \in DOMAIN log : log[i].ref = ref /\ \A j \in DOMAIN log : log[j].ref = ref => j <= i].at

\* trace after a call op that returned ok or n and made the invocations of log
Traced(op, ok, n, log) ==
    [trace EXCEPT !.op = op, !.ok = ok, !.n = n, !.fired = log,
                  !.count = [r \in DOMAIN @ |-> @[r] + Count(log, r)],
                  !.last = [r \in DOMAIN @ |-> IF Count(log, r) > 0 THEN LastAt(log, r) ELSE @[r]],
                  !.completed = @ \cup {log[i].ref : i \in {j \in DOMAIN log :
                                                            log[j].success /\ ~log[j].repeating}}]

\* trace after a call that created the event ref
Created(t, ref) == [t EXCEPT !.count = Put(@, ref, 0), !.last = Put(@, ref, -1)]

InitSched ==
    /\ context = GameContext_init
    /\ evalctx = NoEvalCtx
    /\ evaluator = ExpressionEvaluator_init
    /\ executor = APLExecutor_init
    /\ registry = EmptyMap
    /\ result = NoResult
    /\ scheduler = APLScheduler_init
    /\ trace = NoTrace
    /\ action_registry = ActionRegistry_init
    /\ buff_manager = BuffManager_init
    /\ parser = APLParser_init
    /\ buff_state = empty_buff
    /\ rotation = APLRotationScheduler_init

\* scheduler.schedule_event(EventType.CUSTOM, delay, priority, callback=callback)
ScheduleEvent(delay, priority, callback) ==
    /\ Idle /\ scheduler.event_counter < MaxEvents /\ scheduler.current_time + delay <= MaxSchedTime
    /\ scheduler' = schedule_event(scheduler, scheduler.event_counter + 1, delay, priority, callback,
                                   FALSE, 0, -1)
    /\ trace' = Created(Traced("schedule_event", TRUE, scheduler.event_counter + 1, <<>>),
                        scheduler.event_counter + 1)
    /\ UNCHANGED others

\* scheduler.schedule_timer(delay, callback, repeating=True)
ScheduleTimer(delay) ==
    /\ Idle /\ scheduler.event_counter < MaxEvents /\ scheduler.current_time + delay <= MaxSchedTime
    /\ scheduler' = schedule_timer(scheduler, scheduler.event_counter + 1, delay, "record", TRUE)
    /\ trace' = Created(Traced("schedule_timer", TRUE, scheduler.event_counter + 1, <<>>),
                        scheduler.event_counter + 1)
    /\ UNCHANGED others

\* scheduler.cancel_event("event_<id>")
CancelEvent(event_id) ==
    /\ Idle
    /\ scheduler' = cancel_event(scheduler, event_id).s
    /\ trace' = [Traced("cancel_event", cancel_event(scheduler, event_id).ok, event_id, <<>>)
                    EXCEPT !.cancelled = IF cancel_event(scheduler, event_id).ok
                                         THEN @ \cup {event_id} ELSE @]
    /\ UNCHANGED others

\* scheduler.advance_time(delta_time)
AdvanceSchedulerTime(delta_time) ==
    /\ Idle /\ scheduler.current_time + delta_time <= MaxSchedTime
    /\ scheduler' = advance_time(scheduler, delta_time)
    /\ trace' = Traced("advance_time", TRUE, 0, <<>>)
    /\ UNCHANGED others

\* scheduler.process_events()
ProcessEvents ==
    /\ Idle
    /\ LET got == process_events(scheduler) IN
       /\ scheduler' = got.s
       /\ trace' = Traced("process_events", TRUE, got.processed_count, got.log)
    /\ UNCHANGED others

\* run_for_duration(duration, tick_rate), lines 318-319: the call is entered
RunForDuration(duration, tick_rate) ==
    /\ Idle /\ scheduler.current_time + duration <= MaxRunTime
    /\ scheduler' = [scheduler EXCEPT !.running = TRUE,
                                      !.call = [name |-> "run_for_duration",
                                                start_time |-> scheduler.current_time,
                                                duration |-> duration, tick_rate |-> tick_rate]]
    /\ trace' = Traced("run_for_duration", TRUE, 0, <<>>)
    /\ UNCHANGED others

\* run_for_duration, line 321: the condition of the while loop
Looping ==
    /\ scheduler.call.name = "run_for_duration"
    /\ scheduler.running
    /\ scheduler.current_time - scheduler.call.start_time < scheduler.call.duration

\* run_for_duration, lines 324-329: after self.tick(tick_rate) returned got, the
\* loop is left, and the call returns, if the queue is empty
Ticked(got) ==
    /\ scheduler' = IF got.s.event_queue = <<>>
                    THEN [got.s EXCEPT !.running = FALSE, !.call = NoCall]
                    ELSE got.s
    /\ trace' = Traced("run_for_duration", TRUE, got.processed_count, got.log)
    /\ UNCHANGED others

\* run_for_duration, lines 321-329: one iteration
RunLoop == Looping /\ Ticked(tick(scheduler, scheduler.call.tick_rate))

\* run_for_duration, lines 328-329: the loop condition is false, the call returns
RunReturn ==
    /\ scheduler.call.name = "run_for_duration" /\ ~Looping
    /\ scheduler' = [scheduler EXCEPT !.running = FALSE, !.call = NoCall]
    /\ trace' = Traced("run_for_duration", TRUE, 0, <<>>)
    /\ UNCHANGED others

Pause ==
    /\ Idle
    /\ scheduler' = pause(scheduler)
    /\ trace' = Traced("pause", TRUE, 0, <<>>)
    /\ UNCHANGED others

Resume ==
    /\ Idle
    /\ scheduler' = resume(scheduler)
    /\ trace' = Traced("resume", TRUE, 0, <<>>)
    /\ UNCHANGED others

Stop ==
    /\ Idle
    /\ scheduler' = stop(scheduler)
    /\ trace' = Traced("stop", TRUE, 0, <<>>)
    /\ UNCHANGED others

\* scheduler.reset(): every event is dropped, and what was noted of them with it
Reset ==
    /\ Idle
    /\ scheduler' = reset(scheduler)
    /\ trace' = [NoTrace EXCEPT !.op = "reset", !.ok = TRUE]
    /\ UNCHANGED others

\* the one-shot events a client schedules: (delay, priority, callback)
EventChoices ==
    { <<Secs(1), EventPriority.NORMAL, "record">>, <<Secs(2), EventPriority.NORMAL, "record">>,
      <<Secs(2), EventPriority.HIGH, "record">>, <<Secs(1), EventPriority.NORMAL, "raise">> }

NextSched ==
    \/ \E c \in EventChoices : ScheduleEvent(c[1], c[2], c[3])
    \/ \E event_id \in 1..MaxEvents : CancelEvent(event_id)
    \/ AdvanceSchedulerTime(Secs(1))
    \/ ProcessEvents
    \/ Pause
    \/ Resume
    \/ Reset

SpecSched == InitSched /\ [][NextSched]_vars

\* test_repeating_events and test_event_cancellation: timers and events are
\* scheduled and cancelled and the scheduler runs 1.5 s or 3.5 s in ticks of 0.1 s
NextTimer ==
    \/ ScheduleTimer(Secs(1))
    \/ ScheduleEvent(Secs(2), EventPriority.NORMAL, "record")
    \/ \E event_id \in 1..MaxEvents : CancelEvent(event_id)
    \/ \E duration \in {15, 35} : RunForDuration(duration, 1)
    \/ RunLoop
    \/ RunReturn
    \/ Pause
    \/ Resume
    \/ Stop
    \/ Reset

SpecTimer == InitSched /\ [][NextTimer]_vars

\* the loop of run_for_duration is executed as long as its condition holds
SpecTimerFair == SpecTimer /\ WF_vars(RunLoop) /\ WF_vars(RunReturn)

-----------------------------------------------------------------------------
(* Properties of the scheduler *)

\* the key (due_time, priority) k1 comes strictly before k2
Before(k1, k2) == k1[1] < k2[1] \/ (k1[1] = k2[1] /\ k1[2] < k2[2])

Key(f) == <<f.due, f.priority>>

\* C12: within a call the callbacks are invoked in ascending (due_time,
\* priority) order, and no callback is invoked while an active queued event
\* with a smaller due_time, or the same due_time and a smaller priority, waits.
FiringOrder ==
    /\ \A i \in DOMAIN trace.fired : \A w \in trace.fired[i].waiting : ~Before(w, Key(trace.fired[i]))
    /\ \A i, j \in DOMAIN trace.fired : i < j => ~Before(Key(trace.fired[j]), Key(trace.fired[i]))

\* one process_events call fired an event of HIGH priority before an event of
\* NORMAL priority that was scheduled earlier for the same time, after an
\* event due a second before them
PriorityBeforeInsertion ==
    /\ trace.op = "process_events"
    /\ \E i, j, k \in DOMAIN trace.fired :
          /\ i < j /\ j < k
          /\ trace.fired[i].due < trace.fired[j].due
          /\ trace.fired[j].due = trace.fired[k].due
          /\ trace.fired[j].priority < trace.fired[k].priority
          /\ trace.fired[j].event_id > trace.fired[k].event_id

\* C13: events with equal due_time and equal priority fire in the order in
\* which they were scheduled.
InsertionOrderTieBreak ==
    \A i, j \in DOMAIN trace.fired :
        (/\ i < j
         /\ trace.fired[i].due = trace.fired[j].due
         /\ trace.fired[i].priority = trace.fired[j].priority)
        => trace.fired[i].event_id < trace.fired[j].event_id

\* the step is a call of process_events
ProcessCall == trace'.op = "process_events"

\* the references queued in s whose event is active
QueuedActive(s) ==
    {r \in Range(s.event_queue) : s.objects[r].event_id \in DOMAIN s.active_events}

\* the number of successful invocations in log
Successes(log) == Cardinality({i \in DOMAIN log : log[i].success})

\* the call made by the step invoked no callback of an event due later than
\* current_time; unless it stopped at the per-tick cap it invoked the callback of
\* every queued active event that was due, kept every event due later in the queue
\* and left no due event there; it returned the number of successful invocations
ProcessedExactly ==
    /\ \A i \in DOMAIN trace'.fired : trace'.fired[i].due <= scheduler.current_time
    /\ process_events(scheduler).events_this_tick < scheduler.max_events_per_tick =>
          /\ \A r \in QueuedActive(scheduler) :
                scheduler.objects[r].scheduled_time <= scheduler.current_time
                    => \E i \in DOMAIN trace'.fired : trace'.fired[i].ref = r
          /\ \A r \in Range(scheduler.event_queue) :
                scheduler.objects[r].scheduled_time > scheduler.current_time
                    => r \in Range(scheduler'.event_queue)
          /\ \A r \in Range(scheduler'.event_queue) :
                scheduler'.objects[r].scheduled_time > scheduler'.current_time
    /\ trace'.n = Successes(trace'.fired)

\* C14 as stated: every process_events call fires exactly the due events.
DueExactness == [][ProcessCall => ProcessedExactly]_vars

\* C14: every process_events call made while the scheduler is not paused fires
\* exactly the due events: no callback of an event due after current_time, every
\* queued active event due by current_time unless the per-tick cap is reached,
\* the later events left queued, and the count of successful firings returned.
DueExactnessUnlessPaused == [][(ProcessCall /\ ~scheduler.paused) => ProcessedExactly]_vars

\* a process_events call of a running scheduler invoked two callbacks, one of
\* which raised, returned 1 and left an event due later in the queue
FiredDueLeftLater ==
    /\ trace.op = "process_events" /\ ~scheduler.paused
    /\ Len(trace.fired) = 2 /\ trace.n = 1
    /\ \E r \in QueuedActive(scheduler) : scheduler.objects[r].scheduled_time > scheduler.current_time

\* the callbacks that raised in log
Failures(log) == {i \in DOMAIN log : scheduler.objects[log[i].ref].callback = "raise"}

\* C30: a callback that raises does not end the process_events call: every
\* queued active event that is due is still invoked, in ascending (due_time,
\* priority) order, and the events whose callback raised are counted neither in
\* the value returned nor in stats.processed_events.
CallbackFailureIsolated ==
    [][(ProcessCall /\ ~scheduler.paused) =>
          /\ \A r \in QueuedActive(scheduler) :
                scheduler.objects[r].scheduled_time <= scheduler.current_time
                    => \E i \in DOMAIN trace'.fired : trace'.fired[i].ref = r
          /\ \A i, j \in DOMAIN trace'.fired :
                i < j => ~Before(Key(trace'.fired[j]), Key(trace'.fired[i]))
          /\ trace'.n = Len(trace'.fired) - Cardinality(Failures(trace'.fired))
          /\ scheduler'.stats.processed_events =
                scheduler.stats.processed_events + Len(trace'.fired)
                    - Cardinality(Failures(trace'.fired))]_vars

\* a process_events call in which the first callback raised and the callbacks
\* of two more events were invoked after it
FiredAfterFailure ==
    /\ trace.op = "process_events"
    /\ Len(trace.fired) = 3 /\ trace.n = 2
    /\ scheduler.objects[trace.fired[1].ref].callback = "raise"
    /\ scheduler.stats.processed_events = 2

\* the step is a call of cancel_event
CancelCall == trace'.op = "cancel_event"

\* C15: no step invokes the callback of an event for which cancel_event has
\* returned True, and cancel_event with an id that was never given out, or of
\* an event that has completed or has been cancelled, returns False and leaves
\* the scheduler as it was.
Cancellation ==
    [][/\ \A i \in DOMAIN trace'.fired : trace'.fired[i].ref \notin trace.cancelled
       /\ (/\ CancelCall
           /\ \/ trace'.n > scheduler.event_counter
              \/ trace'.n \in trace.completed
              \/ trace'.n \in trace.cancelled)
          => (~trace'.ok /\ scheduler' = scheduler)]_vars

\* a timer cancelled after it had fired and a one-shot event cancelled before it
\* was due, and a run that has since taken the time past both due times
CancelledThenRun ==
    /\ trace.op = "run_for_duration"
    /\ \E r, q \in trace.cancelled :
          /\ trace.count[r] >= 1 /\ scheduler.current_time > trace.last[r] + Secs(1)
          /\ trace.count[q] = 0 /\ scheduler.current_time > Secs(2)

\* the invocations in log that are the last of their event
LastOfEvent(log) == {i \in DOMAIN log : \A j \in DOMAIN log : log[j].ref = log[i].ref => j <= i}

\* after a call, a repeating event that was handled with success is queued for
\* the time of that firing plus its interval
Requeued ==
    \A i \in LastOfEvent(trace.fired) :
        (trace.fired[i].repeating /\ trace.fired[i].success) =>
            /\ trace.fired[i].ref \in Range(scheduler.event_queue)
            /\ scheduler.objects[trace.fired[i].ref].scheduled_time
                  = trace.fired[i].at + trace.fired[i].interval

\* a firing of a repeating event comes at least one interval after the firing before it
Spaced ==
    \A j \in DOMAIN trace'.fired :
        trace'.fired[j].repeating =>
            /\ trace.last[trace'.fired[j].ref] >= 0 =>
                  trace'.fired[j].at >= trace.last[trace'.fired[j].ref] + trace'.fired[j].interval
            /\ \A i \in DOMAIN trace'.fired :
                  (i < j /\ trace'.fired[i].ref = trace'.fired[j].ref) =>
                      trace'.fired[j].at >= trace'.fired[i].at + trace'.fired[j].interval

\* run_for_duration(3.5, tick_rate=0.1) has returned at time 3.5: it was called at
\* time 0 and has made all its ticks
RanThreeAndAHalfSeconds ==
    Idle /\ trace.op = "run_for_duration" /\ scheduler.current_time = 35

\* C16: a repeating event that fired is re-queued for the time of the firing
\* plus its interval, its firings are at least one interval apart, and a timer
\* of interval 1.0 has fired exactly 3 times when run_for_duration(3.5, 0.1)
\* returns.
RepeatingEvents ==
    /\ [](/\ Requeued
          /\ RanThreeAndAHalfSeconds =>
                \A id \in DOMAIN scheduler.active_events :
                    (scheduler.objects[id].repeating /\ scheduler.objects[id].interval = Secs(1))
                        => trace.count[id] = 3)
    /\ [][Spaced]_vars

\* the timer of test_repeating_events after the run: three firings, due next at 4.0
TimerFiredThreeTimes ==
    /\ RanThreeAndAHalfSeconds
    /\ \E id \in DOMAIN scheduler.active_events :
          /\ scheduler.objects[id].repeating
          /\ trace.count[id] = 3 /\ trace.last[id] = Secs(3)
          /\ scheduler.objects[id].scheduled_time = Secs(4)

\* C17: every call of run_for_duration with a finite duration and a positive
\* tick rate returns after finitely many ticks, whatever the running and paused
\* flags and the contents of the queue are when it is called. The loop of
\* lines 320-327 is taken while its condition holds (SpecTimerFair).
RunReturns == (scheduler.call.name = "run_for_duration") ~> (scheduler.call.name = "none")

\* a step that sets the paused flag starts with the scheduler running
PausedFromRunning == (~scheduler.paused /\ scheduler'.paused) => scheduler.running

\* a step that clears the paused flag is resume(), stop() or reset()
PausedLeftByResumeOrStop ==
    (scheduler.paused /\ ~scheduler'.paused) => trace'.op \in {"resume", "stop", "reset"}

\* stop() and reset() leave the scheduler not paused
StoppedNotPaused == trace'.op \in {"stop", "reset"} => ~scheduler'.paused

\* a tick of a paused scheduler (advance_time, then process_events) leaves
\* current_time and the queue as they were
FrozenWhilePaused ==
    (scheduler.paused /\ Looping) =>
        /\ scheduler'.current_time = scheduler.current_time
        /\ scheduler'.event_queue = scheduler.event_queue
        /\ scheduler'.active_events = scheduler.active_events

\* C18: the scheduler's lifecycle is STOPPED -> RUNNING <-> PAUSED -> STOPPED:
\* paused is entered only from running and left only by resume, stop or reset;
\* the scheduler is never paused while it is not running; stop and reset leave
\* it not paused; while paused, a tick changes neither current_time nor the queue.
Lifecycle ==
    /\ [](scheduler.paused => scheduler.running)
    /\ [][PausedFromRunning /\ PausedLeftByResumeOrStop /\ StoppedNotPaused
            /\ FrozenWhilePaused]_vars

-----------------------------------------------------------------------------
(* Properties of the executor's state *)

\* the cycle that returned r called the execute of a handler
HandlerExecuted(r) ==
    \/ r.selected # 0
    \/ r.error /\ FirstExecutable(r.evaluations) # 0

\* C19: when execute_next_action returns, the executor's state is IDLE if the
\* cycle completed (with an action or with none) and ERROR if it failed; it is
\* not left in the running state, also when no APL is loaded.
CycleState ==
    result.op = "execute_next_action" =>
        executor.state = (IF result.error THEN "error" ELSE "idle")

\* C20: once the executor is in the ERROR state, a call of execute_next_action
\* leaves it in ERROR and executes no action handler.
ErrorAbsorbing ==
    [][(executor.state = "error" /\ result'.op = "execute_next_action") =>
          (executor'.state = "error" /\ ~HandlerExecuted(result'))]_vars

\* the cycle that returned r selected a line whose handler raised in execute
HandlerRaised(r) == r.op = "execute_next_action" /\ r.error /\ FirstExecutable(r.evaluations) # 0

\* C21: when the handler of the selected action raises during execute, the
\* cycle's result records that action with the result FAILED, and the scan of
\* the cycle went no further than the selected line.
HandlerFailure ==
    HandlerRaised(result) =>
        LET first == FirstExecutable(result.evaluations) IN
        /\ result.action_name = result.evaluations[first].action_name
        /\ result.action_result = "failed"
        /\ first = Len(result.evaluations)

-----------------------------------------------------------------------------
(* The registry: registrations, aliases and removals in any order *)

RegistryNames == {"fireball", "frostbolt"}
Aliases == {"fb", "nuke"}
Tags == {"fire", "burst"}
Handlers == {1, 2}
\* the category and tags a registration gives
Metadata == {<<"spell", {"fire"}>>, <<"item", {"burst"}>>, <<"spell", {"fire", "burst"}>>}

untouched_by_registry ==
    <<context, evalctx, evaluator, executor, registry, scheduler, trace, buff_manager, parser, buff_state, rotation>>

InitRegistry ==
    /\ context = GameContext_init
    /\ evalctx = NoEvalCtx
    /\ evaluator = ExpressionEvaluator_init
    /\ executor = APLExecutor_init
    /\ registry = EmptyMap
    /\ result = NoResult
    /\ scheduler = APLScheduler_init
    /\ trace = NoTrace
    /\ action_registry = ActionRegistry_init
    /\ buff_manager = BuffManager_init
    /\ parser = APLParser_init
    /\ buff_state = empty_buff
    /\ rotation = APLRotationScheduler_init

\* registry.register(name, handler, category, tags=tags)
Register(name, handler, category, tags) ==
    /\ LET got == register(action_registry, name, handler, category, tags) IN
       /\ action_registry' = got.r
       /\ result' = [NoResult EXCEPT !.op = "register", !.action_name = name, !.error = ~got.ok]
    /\ UNCHANGED untouched_by_registry

\* registry.add_alias(alias, action_name)
AddAlias(alias, action_name) ==
    /\ LET got == add_alias(action_registry, alias, action_name) IN
       /\ action_registry' = got.r
       /\ result' = [NoResult EXCEPT !.op = "add_alias", !.action_name = action_name,
                                     !.error = ~got.ok]
    /\ UNCHANGED untouched_by_registry

\* registry.unregister(name)
Unregister(name) ==
    /\ LET got == unregister(action_registry, name) IN
       /\ action_registry' = got.r
       /\ result' = [NoResult EXCEPT !.op = "unregister", !.action_name = name, !.error = ~got.ok]
    /\ UNCHANGED untouched_by_registry

\* registry.clear()
Clear ==
    /\ action_registry' = clear(action_registry)
    /\ result' = [NoResult EXCEPT !.op = "clear"]
    /\ UNCHANGED untouched_by_registry

NextRegistry ==
    \/ \E name \in RegistryNames, handler \in Handlers, m \in Metadata :
          Register(name, handler, m[1], m[2])
    \/ \E alias \in Aliases, name \in RegistryNames : AddAlias(alias, name)
    \/ \E name \in RegistryNames : Unregister(name)
    \/ Clear

SpecRegistry == InitRegistry /\ [][NextRegistry]_vars

-----------------------------------------------------------------------------
(* Properties of the registry *)

\* the bulk queries of r list the action of name exactly under its category and tags
ListedWhereItIs(r, name) ==
    /\ \A c \in Categories :
          /\ get_actions_by_category(r, c).raised = ""
          /\ r.actions[name] \in get_actions_by_category(r, c).value <=> r.actions[name].category = c
    /\ \A t \in Tags :
          /\ get_actions_by_tag(r, t).raised = ""
          /\ r.actions[name] \in get_actions_by_tag(r, t).value <=> t \in r.actions[name].tags

\* C22: registering a name that is already registered returns success, get_action
\* of the name then returns the new definition, and get_actions_by_category and
\* get_actions_by_tag return the action exactly under its new category and tags.
DuplicateOverwrites ==
    [][\A name \in RegistryNames, handler \in Handlers, m \in Metadata :
          (name \in DOMAIN action_registry.actions /\ Register(name, handler, m[1], m[2])) =>
              /\ ~result'.error
              /\ get_action(action_registry', name) =
                    [raised |-> "", value |-> [name |-> name, category |-> m[1], tags |-> m[2],
                                               handler |-> handler]]
              /\ ListedWhereItIs(action_registry', name)]_vars

\* every alias of r maps to a registered action, and every name listed under a
\* category or a tag is registered
IndicesRegistered(r) ==
    /\ \A a \in DOMAIN r.aliases : r.aliases[a] \in DOMAIN r.actions
    /\ \A c \in DOMAIN r.categories : r.categories[c] \subseteq DOMAIN r.actions
    /\ \A t \in DOMAIN r.tags : r.tags[t] \subseteq DOMAIN r.actions

\* after unregister(name) returned True: get_action answers None for the name
\* and for each alias it had, and no bulk query fails or returns an action of
\* that name
Unregistered(before, r, name) ==
    /\ get_action(r, name) = [raised |-> "", value |-> NoAction]
    /\ \A a \in DOMAIN before.aliases :
          before.aliases[a] = name => get_action(r, a) = [raised |-> "", value |-> NoAction]
    /\ \A c \in Categories :
          /\ get_actions_by_category(r, c).raised = ""
          /\ \A action \in get_actions_by_category(r, c).value : action.name # name
    /\ \A t \in Tags :
          /\ get_actions_by_tag(r, t).raised = ""
          /\ \A action \in get_actions_by_tag(r, t).value : action.name # name

\* C23: after any sequence of register, add_alias, unregister and clear every
\* alias maps to a registered action and every name in a category or tag index
\* is registered; after unregister(name) returned True the name and its aliases
\* are gone from get_action and from the bulk queries, which do not fail;
\* unregister of an unknown name returns False and changes nothing.
RegistryConsistency ==
    /\ [] IndicesRegistered(action_registry)
    /\ [][\A name \in RegistryNames :
             Unregister(name) =>
                IF name \in DOMAIN action_registry.actions
                THEN ~result'.error /\ Unregistered(action_registry, action_registry', name)
                ELSE result'.error /\ action_registry' = action_registry]_vars

-----------------------------------------------------------------------------
(* The buff manager: snapshots applied in any order, lookups between them *)

BuffIds == 1..MaxBuffs
ManagedBuffNames == <<"buff1", "buff2", "buff3", "buff4">>
\* the remain_ms and stock a snapshot gives a buff
BuffValues == {<<1000, 1>>, <<2000, 1>>, <<2000, 3>>}
\* Set[Buff]: some of the buffs, each with its values
Snapshots ==
    UNION {[ids -> BuffValues] : ids \in SUBSET BuffIds}
SnapshotOf(values) ==
    [i \in DOMAIN values |-> Buff(ManagedBuffNames[i], i, values[i][1], values[i][2])]
\* "id:<n>" and names, of buffs a snapshot can hold and of one it cannot
ManagedBuffAttrs ==
    {<<"id:", i, "">> : i \in {1, 999}} \cup {<<"", n, "">> : n \in {"buff2", "nosuch"}}

untouched_by_buffs ==
    <<context, evalctx, evaluator, executor, registry, scheduler, trace, action_registry, parser, buff_state, rotation>>

InitBuffs ==
    /\ context = GameContext_init
    /\ evalctx = NoEvalCtx
    /\ evaluator = ExpressionEvaluator_init
    /\ executor = APLExecutor_init
    /\ registry = EmptyMap
    /\ result = NoResult
    /\ scheduler = APLScheduler_init
    /\ trace = NoTrace
    /\ action_registry = ActionRegistry_init
    /\ buff_manager = BuffManager_init
    /\ parser = APLParser_init
    /\ buff_state = empty_buff
    /\ rotation = APLRotationScheduler_init

\* manager.update(snapshot)
UpdateBuffs(snapshot) ==
    /\ LET got == BuffManager_update(buff_manager, snapshot) IN
       /\ buff_manager' = got.buffs
       /\ result' = [NoResult EXCEPT !.op = "update", !.snapshot = snapshot,
                                     !.effects = got.effects]
    /\ UNCHANGED untouched_by_buffs

\* getattr(manager, attr)
GetAttr(attr) ==
    /\ LET got == BuffManager_getattr(buff_manager, attr) IN
       result' = [NoResult EXCEPT !.op = "getattr", !.attr = attr, !.exception = got.raised,
                                  !.value = got.value.id]
    /\ UNCHANGED <<buff_manager, untouched_by_buffs>>

NextBuffs ==
    \/ \E values \in Snapshots : UpdateBuffs(SnapshotOf(values))
    \/ \E attr \in ManagedBuffAttrs : GetAttr(attr)

SpecBuffs == InitBuffs /\ [][NextBuffs]_vars

-----------------------------------------------------------------------------
(* Properties of the buff manager *)

\* the manager tracks the buff that attr names
Tracked(buffs, attr) ==
    IF attr[1] = "id:" THEN attr[2] \in DOMAIN buffs
    ELSE \E i \in DOMAIN buffs : buffs[i].name = attr[2]

\* C26: looking up a buff, by "id:<n>" or by name, that the manager does not
\* track raises AttributeError.
UntrackedLookupRaises ==
    (result.op = "getattr" /\ ~Tracked(buff_manager, result.attr)) =>
        result.exception = "AttributeError"

\* the effects name the buff of that id and name
Names(effects, i, name) ==
    \E e \in effects : (e[1] = "id:" /\ e[2] = i) \/ (e[1] = "" /\ e[2] = name)

\* C27: after update(S) the tracked ids are the ids of S and every tracked buff
\* carries the field values S gives it; the effects returned name every added
\* and every removed buff, by id and by name, and no buff whose fields are
\* unchanged.
UpdateSynchronises ==
    [][result'.op = "update" =>
          LET S == result'.snapshot IN
          /\ DOMAIN buff_manager' = DOMAIN S
          /\ \A i \in DOMAIN S : buff_manager'[i] = S[i]
          /\ \A i \in DOMAIN S \ DOMAIN buff_manager :
                {<<"id:", i, "">>, <<"", S[i].name, "">>} \subseteq result'.effects
          /\ \A i \in DOMAIN buff_manager \ DOMAIN S :
                {<<"id:", i, "">>, <<"", buff_manager[i].name, "">>} \subseteq result'.effects
          /\ \A i \in DOMAIN S \cap DOMAIN buff_manager :
                buff_manager[i] = S[i] => ~Names(result'.effects, i, S[i].name)]_vars

\* an update removed buff 1 and changed the stock, not the remain_ms, of buff 2
RemovedAndChanged ==
    /\ result.op = "update"
    /\ 1 \notin DOMAIN buff_manager /\ <<"id:", 1, "">> \in result.effects
    /\ 2 \in DOMAIN buff_manager /\ <<"id:", 2, "stock">> \in result.effects
    /\ <<"id:", 2, "remains">> \notin result.effects

-----------------------------------------------------------------------------
(* Repeating events: schedule_event with a repeating flag, an interval and a *)
(* budget of repeats, time advanced a second at a time                       *)

\* schedule_event(EventType.TIMER, 1.0, callback=cb, repeating=..., interval=...,
\* max_repeats=...)
ScheduleRepeating(repeating, interval, max_repeats) ==
    /\ Idle /\ scheduler.event_counter < MaxEvents
    /\ scheduler.current_time + Secs(1) <= MaxSchedTime
    /\ scheduler' = schedule_event(scheduler, scheduler.event_counter + 1, Secs(1),
                                   EventPriority.NORMAL, "record", repeating, interval, max_repeats)
    /\ trace' = Created(Traced("schedule_event", TRUE, scheduler.event_counter + 1, <<>>),
                        scheduler.event_counter + 1)
    /\ UNCHANGED others

\* the (repeating, interval, max_repeats) a client gives
RepeatChoices ==
    { <<TRUE, Secs(1), 1>>, <<TRUE, Secs(1), -1>>, <<TRUE, Secs(1), 0>>, <<TRUE, 0, 2>>,
      <<FALSE, Secs(1), -1>>, <<FALSE, 0, -1>> }

NextRepeat ==
    \/ \E c \in RepeatChoices : ScheduleRepeating(c[1], c[2], c[3])
    \/ AdvanceSchedulerTime(Secs(1))
    \/ ProcessEvents

SpecRepeat == InitSched /\ [][NextRepeat]_vars

\* the repeat budget of the event is not used up: unlimited, or repeats left
BudgetLeft(event) == event.max_repeats = -1 \/ event.repeat_count < event.max_repeats

-----------------------------------------------------------------------------
(* The cap of a tick: a scheduler with max_events_per_tick = MaxPerTick and  *)
(* callbacks that schedule a further event that is due at once              *)

\* the events that are queued, active and due
DueQueued(s) ==
    { ref \in Range(s.event_queue) :
         /\ s.objects[ref].event_id \in DOMAIN s.active_events
         /\ s.objects[ref].scheduled_time <= s.current_time }

InitCap ==
    /\ context = GameContext_init
    /\ evalctx = NoEvalCtx
    /\ evaluator = ExpressionEvaluator_init
    /\ executor = APLExecutor_init
    /\ registry = EmptyMap
    /\ result = NoResult
    /\ scheduler = [APLScheduler_init EXCEPT !.max_events_per_tick = MaxPerTick]
    /\ trace = NoTrace
    /\ action_registry = ActionRegistry_init
    /\ buff_manager = BuffManager_init
    /\ parser = APLParser_init
    /\ buff_state = empty_buff
    /\ rotation = APLRotationScheduler_init

untouched_by_cap ==
    <<context, evalctx, evaluator, executor, registry, action_registry, buff_manager, parser, buff_state, rotation>>

\* scheduler.schedule_event(EventType.CUSTOM, delay, callback=callback)
ScheduleSpawning(delay, callback) ==
    /\ scheduler.event_counter < MaxEvents
    /\ scheduler.current_time + delay <= MaxSchedTime
    /\ scheduler' = schedule_event(scheduler, scheduler.event_counter + 1, delay,
                                   EventPriority.NORMAL, callback, FALSE, 0, -1)
    /\ trace' = Created(Traced("schedule_event", TRUE, scheduler.event_counter + 1, <<>>),
                        scheduler.event_counter + 1)
    /\ UNCHANGED <<result, untouched_by_cap>>

\* scheduler.advance_time(1.0)
AdvanceCapped ==
    /\ scheduler.current_time + Secs(1) <= MaxSchedTime
    /\ scheduler' = advance_time(scheduler, Secs(1))
    /\ trace' = Traced("advance_time", TRUE, 0, <<>>)
    /\ UNCHANGED <<result, untouched_by_cap>>

\* scheduler.process_events(), called while the events that its callbacks can
\* schedule keep event_counter within MaxSpawned; result notes the number of
\* entries popped, the events fired that an earlier call had left due, and the
\* events this call leaves due
ProcessEventsCapped ==
    /\ scheduler.event_counter + scheduler.max_events_per_tick <= MaxSpawned
    /\ LET got == process_events(scheduler) IN
       /\ scheduler' = got.s
       /\ trace' = [trace EXCEPT !.op = "process_events", !.ok = TRUE,
                                 !.n = got.processed_count, !.fired = got.log]
       /\ result' = [NoResult EXCEPT
                        !.op = "process_events",
                        !.attr = <<got.events_this_tick>>,
                        !.changed = {got.log[i].ref : i \in DOMAIN got.log} \cap result.effects,
                        !.effects = DueQueued(got.s)]
    /\ UNCHANGED untouched_by_cap

NextCap ==
    \/ \E delay \in {0, Secs(1)}, callback \in {"spawn", "record"} : ScheduleSpawning(delay, callback)
    \/ AdvanceCapped
    \/ ProcessEventsCapped

SpecCap == InitCap /\ [][NextCap]_vars

\* C29: a process_events call pops at most max_events_per_tick queue entries
\* (so it ends although every callback schedules a further due event); a due
\* event that the call did not fire, whether it was queued before the call or
\* scheduled during it, is still queued and active after it; and a call that
\* ends below the cap leaves no due event behind, so that the events an
\* earlier call left over have fired.
PerTickCap ==
    [][ProcessCall =>
          LET fired == {trace'.fired[i].ref : i \in DOMAIN trace'.fired}
              popped == result'.attr[1]
          IN  /\ popped <= scheduler.max_events_per_tick
              /\ Len(trace'.fired) <= scheduler.max_events_per_tick
              /\ \A ref \in DueQueued(scheduler) \ fired : ref \in DueQueued(scheduler')
              /\ \A ref \in DOMAIN scheduler'.objects \ (DOMAIN scheduler.objects \cup fired) :
                    ref \in DueQueued(scheduler')
              /\ popped < scheduler.max_events_per_tick => DueQueued(scheduler') = {}
              /\ DueQueued(scheduler') # {} => popped = scheduler.max_events_per_tick]_vars

\* a call has fired an event that the call before it, stopped by the cap, had
\* left due in the queue
LeftOverFiredLater ==
    /\ result.op = "process_events" /\ result.changed # {}
    /\ \E i \in DOMAIN trace.fired : trace.fired[i].ref \in result.changed

-----------------------------------------------------------------------------
(* Parsing scripts: APLParser.parse on scripts of at most MaxScriptLines     *)
(* lines, some of the grammar NAME(,OPTION=VALUE)* and some not              *)

\* a line of the grammar: with or without the leading '/', a name and at most
\* one option (option = <<>> when there is none)
GrammarLines ==
    { [slash |-> s, name |-> n, option |-> o[1], value |-> o[2]] :
        s \in BOOLEAN, n \in {<<"a">>, <<"b">>},
        o \in { <<(<<>>), (<<>>)>>, <<(<<"i", "f">>), (<<"m", ">", "5">>)>>,
                <<(<<"x">>), (<<"1">>)>> } }

\* the text of a line of the grammar
Render(l) ==
    (IF l.slash THEN <<"/">> ELSE <<>>) \o l.name
    \o (IF l.option = <<>> THEN <<>> ELSE <<",">> \o l.option \o <<"=">> \o l.value)

\* texts that are no line of the grammar: a name followed by a second word,
\* a '/' alone, a comma without an option
BadLines == { <<"/", "a", " ", "b">>, <<"/">>, <<"/", "a", ",">> }

ScriptLines ==
    { [text |-> Render(l), grammar |-> TRUE, of |-> l] : l \in GrammarLines }
    \cup { [text |-> t, grammar |-> FALSE, of |-> <<>>] : t \in BadLines }

\* the scripts: sequences of 1..MaxScriptLines lines
\* and the line of a character that the lexer does not know
ParserScripts ==
    UNION { [1..n -> ScriptLines] : n \in 1..MaxScriptLines }
    \cup { <<[text |-> <<"/", "a", "\n", "$">>, grammar |-> FALSE, of |-> <<>>]>> }

RECURSIVE ScriptText(_)
\* the text of a script: its lines separated by newlines
ScriptText(script) ==
    IF Len(script) = 1 THEN script[1].text
    ELSE script[1].text \o <<"\n">> \o ScriptText(Tail(script))

\* the texts given to parse_expression
ExprTexts == { <<"1">>, <<"m", ">", "5">>, <<"!", "a">>, <<"a", ".", "b">>, <<>> }

untouched_by_parser ==
    <<context, evalctx, evaluator, executor, registry, scheduler, trace, action_registry,
      buff_manager, buff_state, rotation>>

InitParser ==
    /\ context = GameContext_init
    /\ evalctx = NoEvalCtx
    /\ evaluator = ExpressionEvaluator_init
    /\ executor = APLExecutor_init
    /\ registry = EmptyMap
    /\ result = NoResult
    /\ scheduler = APLScheduler_init
    /\ trace = NoTrace
    /\ action_registry = ActionRegistry_init
    /\ buff_manager = BuffManager_init
    /\ parser = APLParser_init
    /\ buff_state = empty_buff
    /\ rotation = APLRotationScheduler_init

\* parser.parse(text) for the text of a script; result notes the script, the
\* lines of the ActionList returned, the warnings printed and the exception
\* that left the call
Parse(script, got) ==
    /\ parser' = [tokens |-> IF tokenize(ScriptText(script)).raised = ""
                             THEN tokenize(ScriptText(script)).tokens ELSE parser.tokens,
                  current |-> IF tokenize(ScriptText(script)).raised = ""
                              THEN got.current ELSE parser.current]
    /\ result' = [NoResult EXCEPT !.op = "parse", !.attr = script, !.log = got.lines,
                                  !.value = got.warnings, !.exception = got.raised]
    /\ UNCHANGED untouched_by_parser

\* parser.parse_expression(text)
ParseExpression(text) ==
    /\ tokenize(text).raised = ""
    /\ parser' = [tokens |-> tokenize(text).tokens,
                  current |-> parse_expression(tokenize(text).tokens, 1).current]
    /\ result' = [NoResult EXCEPT !.op = "parse_expression", !.attr = text,
                                  !.exception = parse_expression(tokenize(text).tokens, 1).raised]
    /\ UNCHANGED untouched_by_parser

NextParser ==
    \/ \E script \in ParserScripts : Parse(script, parse(ScriptText(script)))
    \/ \E text \in ExprTexts : ParseExpression(text)

SpecParser == InitParser /\ [][NextParser]_vars

\* C24: a script whose lines are all of the grammar NAME(,OPTION=VALUE)*, with
\* or without the leading '/', parses into one ActionLine a line, in order,
\* with the name of the line; an option named if (or another expression
\* option) is stored as a condition that is not empty, and every other option
\* is stored in options with its scalar value.
ActionLineGrammar ==
    (result.op = "parse" /\ \A i \in DOMAIN result.attr : result.attr[i].grammar) =>
        /\ result.exception = ""
        /\ Len(result.log) = Len(result.attr)
        /\ \A i \in DOMAIN result.attr :
              LET l == result.attr[i].of
                  line == result.log[i]
              IN  /\ line.action_name = l.name
                  /\ l.option \in ExpressionOptions =>
                        /\ l.option \in DOMAIN line.exprs
                        /\ line.exprs[l.option] # NoExpr
                  /\ (l.option # <<>> /\ l.option \notin ExpressionOptions) =>
                        /\ l.option \in DOMAIN line.options
                        /\ line.options[l.option] = l.value

\* the line parses when it is the whole script: one ActionLine, no warning
ParsesAlone(l) ==
    /\ parse(l.text).raised = "" /\ parse(l.text).warnings = 0
    /\ Len(parse(l.text).lines) = 1

RECURSIVE LinesOf(_)
\* the ActionLines of the lines of the script that parse alone, in script order
LinesOf(script) ==
    IF script = <<>> THEN <<>>
    ELSE (IF ParsesAlone(script[1]) THEN parse(script[1].text).lines ELSE <<>>)
         \o LinesOf(Tail(script))

\* C25: parse returns on every script, and for a script in which one line
\* fails to parse the ActionList returned holds exactly the ActionLines of the
\* other lines, in script order: the failing line contributes none.
PerLineRecovery ==
    result.op = "parse" =>
        /\ result.exception = ""
        /\ Cardinality({i \in DOMAIN result.attr : ~ParsesAlone(result.attr[i])}) = 1 =>
              result.log = LinesOf(result.attr)

-----------------------------------------------------------------------------
(* Faulty lines: scripts with a line whose action is not registered, a line *)
(* whose condition raises, and handlers whose can_execute raises            *)

\* pet_attack is not registered; nofunc() raises; the lines of registered
\* actions have different names, so that no two of them share a cache key
FaultLines ==
    { ActionLine("pet_attack", NoExpr), ActionLine("pet_attack", 38), ActionLine("fireball", 38),
      ActionLine("frostbolt", NoExpr), ActionLine("arcane_shot", NoExpr) }

\* the scripts of 1..MaxFaultLines different lines
FaultScripts ==
    UNION { {apl \in [1..n -> FaultLines] : \A i, j \in 1..n : apl[i] = apl[j] => i = j} :
              n \in 1..MaxFaultLines }

\* the can_execute of frostbolt answers or raises, that of arcane_shot answers
FaultRegistries ==
    { [n \in ActionNames |-> RegisteredAction(IF n = "frostbolt" THEN frost
                                              ELSE IF n = "arcane_shot" THEN arcane ELSE "yes",
                                              "success")] :
        frost \in {"yes", "raise"}, arcane \in {"yes", "no"} }

InitFaults ==
    /\ context = GameContext_init
    /\ evalctx = NoEvalCtx
    /\ evaluator = ExpressionEvaluator_init
    /\ executor = APLExecutor_init
    /\ registry \in FaultRegistries
    /\ result = NoResult
    /\ scheduler = APLScheduler_init
    /\ trace = NoTrace
    /\ action_registry = ActionRegistry_init
    /\ buff_manager = BuffManager_init
    /\ parser = APLParser_init
    /\ buff_state = empty_buff
    /\ rotation = APLRotationScheduler_init

NextFaults ==
    \/ \E apl \in FaultScripts : LoadApl(apl)
    \/ \E v \in ManaValues : SetResource(v)
    \/ ExecuteNextAction

SpecFaults == InitFaults /\ [][NextFaults]_vars

\* the line at position i has a fault: its action is not registered, or one of
\* its conditions raises, or its conditions pass and can_execute raises
LineFaulty(i) ==
    LET line == executor.current_apl[i] IN
    \/ ~Registered(registry, line.action_name)
    \/ line.if_expr # NoExpr /\ Eval(line.if_expr, context).error
    \/ /\ line.if_expr # NoExpr => Eval(line.if_expr, context).value # 0
       /\ registry[line.action_name].can = "raise"

\* C31: a line whose action is missing from the registry, or whose condition
\* evaluation or readiness check raises, gets an evaluation with an error and
\* can_execute False, the cycle returns without an error of its own and has
\* gone on to the later lines, and it selects the first line that passes both
\* checks, if there is one, also when that line comes after faulty lines.
PerLineFaults ==
    (Cycle /\ executor.loaded) =>
        /\ ~result.error
        /\ \A i \in DOMAIN result.evaluations :
              /\ result.evaluations[i].index = i
              /\ LineFaulty(i) <=> result.evaluations[i].error
              /\ LineFaulty(i) =>
                    /\ ~result.evaluations[i].can_execute
                    /\ i < Len(executor.current_apl) => Len(result.evaluations) > i
        /\ IF PassingLines = {}
           THEN result.selected = 0 /\ Len(result.evaluations) = Len(executor.current_apl)
           ELSE result.selected = FirstPassing /\ Len(result.evaluations) = FirstPassing

\* a cycle has gone past a line of each kind of fault and selected the fourth line
SelectedAfterThreeFaults ==
    /\ Cycle /\ result.selected = 4
    /\ ~Registered(registry, executor.current_apl[1].action_name)
    /\ executor.current_apl[2].if_expr = 38
    /\ registry[executor.current_apl[3].action_name].can = "raise"
    /\ \A i \in 1..3 : result.evaluations[i].error

-----------------------------------------------------------------------------
(* Chains of handles: resolve_identifier of apl.py is applied to every      *)
(* path of up to MaxSegments attribute segments, under registries whose     *)
(* handle-returning resolvers report every consumed count of                *)
(* ConsumedValues.                                                          *)

MaxSegments == 3

\* the consumed counts a handle-returning resolver reports
ConsumedValues == {0 - 1, 0, 1, 2}

ChainSegments == {"next", "val", "other"}

\* unit.x followed by up to MaxSegments attribute segments; the empty path and the
\* bare prefix
ChainPaths ==
    {<<>>, <<"unit">>} \cup
    UNION { {<<"unit", "x">> \o p : p \in [1..n -> ChainSegments]} : n \in 0..MaxSegments }

\* a module unit whose handles have type a_inst
ChainModules == [p \in {"unit"} |-> [class |-> "OptionalModule", htype |-> "a_inst", names |-> {"x"}]]

\* next leads from a_inst to b_inst and back; val is a number on one handle type or
\* on any; up is registered for one handle type, for any, or not at all
ChainResolvers(consumed, val_type, up_type) ==
    << [class |-> "HandleResolver", types |-> {"a_inst"}, attrs |-> {"next"},
        value |-> 0, consumed |-> consumed, to |-> "b_inst"],
       [class |-> "HandleResolver", types |-> {"b_inst"}, attrs |-> {"next"},
        value |-> 0, consumed |-> 1, to |-> "a_inst"],
       [class |-> "NumberResolver", types |-> {val_type}, attrs |-> {"val"},
        value |-> Num(3), consumed |-> 1, to |-> ""] >> \o
    (IF up_type = "" THEN <<>>
     ELSE << [class |-> "NumberResolver", types |-> {up_type}, attrs |-> {"up"},
              value |-> One, consumed |-> 1, to |-> ""] >>)

ChainConfigs ==
    { [state |-> [buffs |-> EmptyMap, target_debuffs |-> EmptyMap], modules |-> ChainModules,
       resolvers |-> ChainResolvers(c, v, u)] :
        c \in ConsumedValues, v \in {"a_inst", "b_inst", "*"}, u \in {"", "a_inst", "b_inst", "*"} }

NoChain == [op |-> "none", parts |-> <<>>, calls |-> <<>>, value |-> 0, raised |-> FALSE]

InitChain ==
    /\ context = GameContext_init
    /\ evalctx \in ChainConfigs
    /\ evaluator = ExpressionEvaluator_init
    /\ executor = APLExecutor_init
    /\ registry = EmptyMap
    /\ result = NoResult
    /\ scheduler = APLScheduler_init
    /\ trace = NoChain
    /\ action_registry = ActionRegistry_init
    /\ buff_manager = BuffManager_init
    /\ parser = APLParser_init
    /\ buff_state = empty_buff
    /\ rotation = APLRotationScheduler_init

\* ctx.resolve_identifier(parts)
ResolveIdentifier(parts) ==
    /\ LET run == resolve_identifier_run(evalctx, parts) IN
       trace' = [op |-> "resolve_identifier", parts |-> parts, calls |-> run.calls,
                 value |-> run.out.value, raised |-> run.out.error]
    /\ UNCHANGED <<context, evalctx, evaluator, executor, registry, result, scheduler,
                 action_registry, buff_manager, parser, buff_state, rotation>>

NextChain == \E parts \in ChainPaths : ResolveIdentifier(parts)

SpecChain == InitChain /\ [][NextChain]_vars

\* a path with a known module and a name was resolved
PathResolved == trace.op = "resolve_identifier" /\ Len(trace.parts) >= 2

\* the segment resolution moves to after the k-th resolver call
AfterCall(k) == trace.calls[k].idx + Max(1, trace.calls[k].consumed)

\* the resolver registered for the attribute on the handle type, or failing that on
\* any handle type
LookedUp(htype, attr) ==
    LET own == {i \in DOMAIN evalctx.resolvers : can_resolve(evalctx.resolvers[i], htype, attr)}
        any == {i \in DOMAIN evalctx.resolvers : can_resolve(evalctx.resolvers[i], "*", attr)}
    IN  IF own # {} THEN own ELSE any

LastCall == trace.calls[Len(trace.calls)]

\* the handle type resolution holds after its last resolver call (a_inst, the type
\* of unit's handles, when no call was made)
FinalType == IF trace.calls = <<>> THEN "a_inst" ELSE LastCall.to

\* the segment resolution stood at after its last resolver call
FinalIdx == IF trace.calls = <<>> THEN 3 ELSE AfterCall(Len(trace.calls))

\* C32: a resolver call that yields a handle is followed by the lookup of the next
\* remaining segment against the new handle's type; a number yielded by a resolver
\* is the result; once the segments are used up with a handle in hand, up is
\* resolved on that handle's type, and the result is 0 when no resolver for it exists
HandleChaining ==
    PathResolved =>
        /\ \A k \in 1..Len(trace.calls) :
              /\ trace.calls[k].resolver \in LookedUp(trace.calls[k].htype, trace.calls[k].attr)
              /\ k < Len(trace.calls) =>
                    /\ trace.calls[k].kind = "handle"
                    /\ trace.calls[k].idx # 0
                    /\ trace.calls[k + 1].htype = trace.calls[k].to
                    /\ IF AfterCall(k) <= Len(trace.parts)
                       THEN /\ trace.calls[k + 1].idx = AfterCall(k)
                            /\ trace.calls[k + 1].attr = trace.parts[AfterCall(k)]
                       ELSE /\ trace.calls[k + 1].idx = 0
                            /\ trace.calls[k + 1].attr = "up"
        /\ (trace.calls # <<>> /\ LastCall.kind = "number") =>
              (~trace.raised /\ trace.value = LastCall.num)
        /\ (trace.calls = <<>> \/ LastCall.kind = "handle") =>
              /\ ~trace.raised /\ trace.value = 0
              /\ IF FinalIdx <= Len(trace.parts)
                 THEN LookedUp(FinalType, trace.parts[FinalIdx]) = {}
                 ELSE LookedUp(FinalType, "up") = {}

\* unit.x.next.next: two handles in a row, then up resolved on the last one
ChainedToDefault ==
    /\ PathResolved /\ Len(trace.calls) = 3
    /\ trace.calls[1].to = "b_inst" /\ trace.calls[2].htype = "b_inst"
    /\ trace.calls[2].to = "a_inst"
    /\ trace.calls[3].idx = 0 /\ trace.calls[3].htype = "a_inst"
    /\ trace.value = One

\* the resolver calls made for segments of the path, without the default attribute
SegmentCalls == {k \in 1..Len(trace.calls) : trace.calls[k].idx # 0}

\* C33: resolve_identifier makes at most one resolver call per attribute segment,
\* each for a later segment than the one before, and at most one call for the
\* default attribute, whatever consumed count the resolvers report
ChainTerminates ==
    PathResolved =>
        /\ Cardinality(SegmentCalls) <= Len(trace.parts) - 2
        /\ Len(trace.calls) <= Len(trace.parts) - 2 + 1
        /\ \A k \in SegmentCalls : trace.calls[k].idx \in 3..Len(trace.parts)
        /\ \A j, k \in SegmentCalls : j < k => trace.calls[j].idx < trace.calls[k].idx

\* a resolver that reported a consumed count below 1 was followed by the next segment
AdvancedDespiteZero ==
    /\ PathResolved /\ Len(trace.calls) >= 3
    /\ trace.calls[1].consumed <= 0 /\ trace.calls[1].kind = "handle"
    /\ trace.calls[2].idx = trace.calls[1].idx + 1

-----------------------------------------------------------------------------
(* The event queue as a heap: up to MaxQueued events of different due times *)
(* and priorities, one-shot and repeating, are scheduled, cancelled, fired  *)
(* and dropped by reset.                                                    *)

MaxQueued == 4
MaxHeapTime == 20

\* the (delay, priority, repeating, interval, max_repeats) a client schedules
HeapChoices ==
    { <<0, EventPriority.NORMAL, FALSE, 0, -1>>,
      <<Secs(1), EventPriority.HIGH, FALSE, 0, -1>>,
      <<Secs(2), EventPriority.CRITICAL, FALSE, 0, -1>>,
      <<Secs(2), EventPriority.NORMAL, FALSE, 0, -1>>,
      <<Secs(1), EventPriority.LOW, TRUE, Secs(1), 1>> }

\* what a call leaves noted: its name and the value it returned
Noted(op, ok, n) == [NoTrace EXCEPT !.op = op, !.ok = ok, !.n = n]

\* scheduler.schedule_event(EventType.CUSTOM, delay, priority, callback=cb,
\* repeating=..., interval=..., max_repeats=...)
ScheduleQueued(delay, priority, repeating, interval, max_repeats) ==
    /\ scheduler.event_counter < MaxQueued
    /\ scheduler' = schedule_event(scheduler, scheduler.event_counter + 1, delay, priority,
                                   "record", repeating, interval, max_repeats)
    /\ trace' = Noted("schedule_event", TRUE, scheduler.event_counter + 1)
    /\ UNCHANGED others

\* scheduler.cancel_event("event_<id>")
CancelQueued(event_id) ==
    /\ scheduler' = cancel_event(scheduler, event_id).s
    /\ trace' = Noted("cancel_event", cancel_event(scheduler, event_id).ok, event_id)
    /\ UNCHANGED others

\* scheduler.tick(1.0): advance_time, then process_events
TickQueued ==
    /\ scheduler.current_time + Secs(1) <= MaxHeapTime
    /\ LET got == tick(scheduler, Secs(1)) IN
       /\ scheduler' = got.s
       /\ trace' = Noted("tick", TRUE, got.processed_count)
    /\ UNCHANGED others

\* scheduler.reset()
ResetQueued ==
    /\ scheduler' = reset(scheduler)
    /\ trace' = Noted("reset", TRUE, 0)
    /\ UNCHANGED others

NextHeap ==
    \/ \E c \in HeapChoices : ScheduleQueued(c[1], c[2], c[3], c[4], c[5])
    \/ \E event_id \in 1..MaxQueued : CancelQueued(event_id)
    \/ TickQueued
    \/ ResetQueued

SpecHeap == InitSched /\ [][NextHeap]_vars

\* C34: after every scheduler operation no entry of the event queue comes before
\* its parent in the order on (due time, priority)
HeapInvariant ==
    \A pos \in 2..Len(scheduler.event_queue) :
        ~ScheduledEvent_lt(scheduler.objects[scheduler.event_queue[pos]],
                           scheduler.objects[scheduler.event_queue[pos \div 2]])

\* a tick fired events and re-inserted a repeating one into a queue of four
\* entries, one of them cancelled
RequeuedIntoHeap ==
    /\ trace.op = "tick" /\ trace.n >= 1
    /\ Len(scheduler.event_queue) >= 4
    /\ \E i \in DOMAIN scheduler.event_queue :
          scheduler.objects[scheduler.event_queue[i]].repeat_count = 1
    /\ \E i \in DOMAIN scheduler.event_queue :
          scheduler.objects[scheduler.event_queue[i]].event_id \notin DOMAIN scheduler.active_events

-----------------------------------------------------------------------------
(* Line cooldowns: scripts whose lines carry a cooldown expiry, as a client *)
(* that sets ActionLine.line_cooldown_expires leaves them, are run while    *)
(* the context's time advances.                                             *)

\* ActionLine(action_name, if_expr=..., line_cooldown_expires=expires)
CooledLine(action_name, if_expr, expires) ==
    [ActionLine(action_name, if_expr) EXCEPT !.line_cooldown_expires = expires]

CooldownLines ==
    { CooledLine(n, e, x) : n \in {"fireball", "frostbolt"}, e \in {NoExpr, 4}, x \in {0, 3} }

CooldownScripts ==
    { <<l>> : l \in CooldownLines } \cup
    { <<l, CooledLine("arcane_shot", NoExpr, 0)>> : l \in CooldownLines }

NextCooldown ==
    \/ \E apl \in CooldownScripts : LoadApl(apl)
    \/ \E v \in ManaValues : SetResource(v)
    \/ AdvanceTime(1)
    \/ ExecuteNextAction

SpecCooldown == InitExec /\ [][NextCooldown]_vars

\* C35: a cycle that executes a line leaves that line's line_cooldown_expires
\* updated (not before the current time), and the line it executes is not one
\* whose cooldown has yet to expire
LineCooldown ==
    [][(result'.op = "execute_next_action" /\ result'.selected # 0) =>
          /\ executor'.current_apl[result'.selected].line_cooldown_expires >= context.current_time
          /\ ~(context.current_time < executor.current_apl[result'.selected].line_cooldown_expires)]_vars

-----------------------------------------------------------------------------
(* Identifier.update on a BuffState: the object is updated with Buff        *)
(* instances of every combination of field values and with values that are *)
(* not models.                                                              *)

\* BuffState(id=..., name=..., icon=..., remain_ms=..., stock=...)
BuffStateOf(i, name, icon, remain_ms, stock) ==
    [id |-> i, name |-> name, icon |-> icon, remain_ms |-> remain_ms, stock |-> stock]

BuffStateValues ==
    { BuffStateOf(i, name, 1, remain_ms, stock) :
        i \in {1, 2}, name \in {"buff1", "buff2"}, remain_ms \in {0, 1000, 2000}, stock \in {0, 1, 3} }

\* the arguments given to update: Buff instances, "invalid_input" and 123
UpdateArguments == {ModelInstance(b) : b \in BuffStateValues} \cup {NotAModel}

\* the depends_on lists of the properties BuffState registers
BuffState_depends_on ==
    [a \in {"up", "remains", "stock"} |->
        CASE a = "up" -> {"stock", "remain_ms"}
          [] a = "remains" -> {"remain_ms"}
          [] a = "stock" -> {"stock"}]

InitIdentifier ==
    /\ context = GameContext_init
    /\ evalctx = NoEvalCtx
    /\ evaluator = ExpressionEvaluator_init
    /\ executor = APLExecutor_init
    /\ registry = EmptyMap
    /\ result = NoResult
    /\ scheduler = APLScheduler_init
    /\ trace = NoTrace
    /\ action_registry = ActionRegistry_init
    /\ buff_manager = BuffManager_init
    /\ parser = APLParser_init
    /\ buff_state \in BuffStateValues
    /\ rotation = APLRotationScheduler_init

\* buff_state.update(new_value); result notes the object before the call, the
\* argument, the exception and the effects and changes returned
IdentifierUpdate(new_value) ==
    /\ LET got == Identifier_update(buff_state, new_value) IN
       /\ buff_state' = got.self
       /\ result' = [NoResult EXCEPT !.op = "identifier_update", !.before = buff_state,
                                     !.snapshot = new_value, !.exception = got.raised,
                                     !.effects = got.effects, !.key = got.changes]
    /\ UNCHANGED <<context, evalctx, evaluator, executor, registry, scheduler, trace,
                 action_registry, buff_manager, parser, rotation>>

NextIdentifier == \E new_value \in UpdateArguments : IdentifierUpdate(new_value)

SpecIdentifier == InitIdentifier /\ [][NextIdentifier]_vars

\* the fields in which the argument of the last update differed from the object
Differing == {k \in DOMAIN result.snapshot.fields : result.snapshot.fields[k] # result.before[k]}

\* C36: update(new) sets exactly the fields whose values differ, returns them in
\* changes as (old, new) pairs and returns in effects exactly the registered
\* attributes that depend on a changed field; when nothing differs both are empty
\* and the object is as before; an argument that is not a model raises TypeError
\* and leaves the object as it was
UpdateSetsWhatDiffers ==
    result.op = "identifier_update" =>
        IF result.snapshot.is_model
        THEN /\ result.exception = ""
             /\ \A k \in DOMAIN result.before :
                   buff_state[k] = IF k \in Differing THEN result.snapshot.fields[k]
                                   ELSE result.before[k]
             /\ DOMAIN result.key = Differing
             /\ \A k \in Differing :
                   result.key[k] = <<result.before[k], result.snapshot.fields[k]>>
             /\ result.effects = {a \in DOMAIN BuffState_depends_on :
                                     BuffState_depends_on[a] \cap Differing # {}}
             /\ Differing = {} =>
                   (result.key = EmptyMap /\ result.effects = {} /\ buff_state = result.before)
        ELSE /\ result.exception = "TypeError"
             /\ buff_state = result.before

\* an update changed the stock alone, from 1 to 3: up and stock are affected,
\* remains is not
StockAloneChanged ==
    /\ result.op = "identifier_update" /\ result.snapshot.is_model
    /\ DOMAIN result.key = {"stock"} /\ result.key["stock"] = <<1, 3>>
    /\ buff_state.stock = 3 /\ buff_state.remain_ms = result.before.remain_ms
    /\ result.effects = {"up", "stock"}

-----------------------------------------------------------------------------
(* Liveness of scheduled events: a scheduler with max_events_per_tick =      *)
(* MaxPerTick is ticked a second at a time; clients schedule, cancel, pause  *)
(* and resume, and callbacks schedule HIGH events that are due at once.      *)

MaxLiveEvents == 3     \* clients schedule while event_counter is below this
MaxLiveSched == 20     \* clients schedule events due up to this time
MaxLiveTime == 70      \* the time up to which tick is called

\* the events a scheduler of this specification can hold: one scheduled by a
\* client and the two its callbacks schedule
LiveRefs == 1..(3 * MaxLiveEvents)

\* what is noted: the call made last, the events whose callback was invoked, the
\* ids cancelled with success, and the events a tick that hit the cap left due
NoLive == [op |-> "none", invoked |-> {}, cancelled |-> {}, left_due |-> {}]

InitLive ==
    /\ context = GameContext_init
    /\ evalctx = NoEvalCtx
    /\ evaluator = ExpressionEvaluator_init
    /\ executor = APLExecutor_init
    /\ registry = EmptyMap
    /\ result = NoResult
    /\ scheduler = [APLScheduler_init EXCEPT !.max_events_per_tick = MaxPerTick]
    /\ trace = NoLive
    /\ action_registry = ActionRegistry_init
    /\ buff_manager = BuffManager_init
    /\ parser = APLParser_init
    /\ buff_state = empty_buff
    /\ rotation = APLRotationScheduler_init

\* scheduler.schedule_event(EventType.CUSTOM, delay, priority, callback=callback)
ScheduleLive(delay, priority, callback) ==
    /\ scheduler.event_counter < MaxLiveEvents
    /\ scheduler.current_time + delay <= MaxLiveSched
    /\ scheduler' = schedule_event(scheduler, scheduler.event_counter + 1, delay, priority,
                                   callback, FALSE, 0, -1)
    /\ trace' = [trace EXCEPT !.op = "schedule_event"]
    /\ UNCHANGED others

\* scheduler.cancel_event("event_<id>")
CancelLive(event_id) ==
    /\ scheduler' = cancel_event(scheduler, event_id).s
    /\ trace' = [trace EXCEPT !.op = "cancel_event",
                              !.cancelled = IF cancel_event(scheduler, event_id).ok
                                            THEN @ \cup {event_id} ELSE @]
    /\ UNCHANGED others

\* scheduler.tick(1.0)
TickLive ==
    /\ scheduler.paused \/ scheduler.current_time + Secs(1) <= MaxLiveTime
    /\ \E got \in {tick(scheduler, Secs(1))} :
       /\ scheduler' = got.s
       /\ trace' = [trace EXCEPT !.op = "tick",
                                 !.invoked = @ \cup {got.log[i].ref : i \in DOMAIN got.log},
                                 !.left_due = IF got.events_this_tick = scheduler.max_events_per_tick
                                              THEN @ \cup DueQueued(got.s) ELSE @]
    /\ UNCHANGED others

PauseLive ==
    /\ ~scheduler.paused
    /\ scheduler' = pause(scheduler)
    /\ trace' = [trace EXCEPT !.op = "pause"]
    /\ UNCHANGED others

ResumeLive ==
    /\ scheduler.paused
    /\ scheduler' = resume(scheduler)
    /\ trace' = [trace EXCEPT !.op = "resume"]
    /\ UNCHANGED others

\* the (delay, priority, callback) a client schedules
LiveChoices ==
    { <<Secs(1), EventPriority.LOW, "record">>, <<Secs(2), EventPriority.NORMAL, "raise">>,
      <<Secs(1), EventPriority.NORMAL, "spawn_twice">> }

NextLive ==
    \/ \E c \in LiveChoices : ScheduleLive(c[1], c[2], c[3])
    \/ \E event_id \in LiveRefs : CancelLive(event_id)
    \/ TickLive
    \/ PauseLive
    \/ ResumeLive

SpecLive == InitLive /\ [][NextLive]_vars

\* a tick that advances the clock can be made: ENABLED <<TickLive /\ ~scheduler.paused>>_vars
TickPossible == ~scheduler.paused /\ scheduler.current_time + Secs(1) <= MaxLiveTime

\* tick keeps being called while the scheduler is not paused (strong fairness of
\* the tick of a running scheduler, SF_vars(TickLive /\ ~scheduler.paused), with
\* its enabling condition written out), and the scheduler is never paused
\* forever (weak fairness of resume)
SpecLiveFair ==
    /\ SpecLive
    /\ ([]<>TickPossible => []<><<TickLive /\ ~scheduler.paused>>_vars)
    /\ WF_vars(ResumeLive)

\* every event scheduled so far has had its callback invoked or was cancelled
AllSettled ==
    \A ref \in DOMAIN scheduler.objects : ref \in trace.invoked \/ ref \in trace.cancelled

\* C37: every event that is scheduled and never cancelled has its callback
\* invoked at some later point, whatever its priority and whatever the callbacks
\* of other events schedule: again and again a state is reached in which no
\* event scheduled before it is still waiting
ScheduledEventsFire == []<>AllSettled

\* a LOW event that a tick at the cap left due, while HIGH events scheduled by
\* callbacks after it were fired, has had its callback invoked
LeftDueThenFired ==
    \E ref \in trace.left_due \cap trace.invoked :
        /\ scheduler.objects[ref].priority = EventPriority.LOW
        /\ \E other \in trace.invoked :
              other > ref /\ scheduler.objects[other].priority = EventPriority.HIGH

-----------------------------------------------------------------------------
(* The active index and the queue *)

\* C38: after every scheduler operation every event of the active index has an
\* entry in the event queue, and stats.pending_events is the size of the active
\* index
ActiveIndexMatchesQueue ==
    /\ \A event_id \in DOMAIN scheduler.active_events :
          scheduler.active_events[event_id] \in Range(scheduler.event_queue)
    /\ scheduler.stats.pending_events = Cardinality(DOMAIN scheduler.active_events)

-----------------------------------------------------------------------------
(* APLRotationScheduler: actions are scheduled through schedule_action while *)
(* the scheduler is ticked half a second at a time.                         *)

MaxActions == 3
MaxRotationTime == 50

\* what is noted: the call made last and the times at which execute_action ran
NoRotation == [op |-> "none", executed |-> <<>>]

InitRotation ==
    /\ context = GameContext_init
    /\ evalctx = NoEvalCtx
    /\ evaluator = ExpressionEvaluator_init
    /\ executor = APLExecutor_init
    /\ registry = EmptyMap
    /\ result = NoResult
    /\ scheduler = APLScheduler_init
    /\ trace = NoRotation
    /\ action_registry = ActionRegistry_init
    /\ buff_manager = BuffManager_init
    /\ parser = APLParser_init
    /\ buff_state = empty_buff
    /\ rotation = APLRotationScheduler_init

untouched_by_rotation ==
    <<context, evalctx, evaluator, executor, registry, result, action_registry, buff_manager,
      parser, buff_state>>

\* APLRotationScheduler.schedule_action: the delay until the global cooldown that
\* began at last_gcd_time is over
schedule_action(rot, s) ==
    schedule_event(s, s.event_counter + 1,
                   IF ~can_cast_now(rot, s)
                   THEN rot.gcd_duration - (s.current_time - rot.last_gcd_time) ELSE 0,
                   EventPriority.NORMAL, "execute_action", FALSE, 0, -1)

\* rotation_scheduler.schedule_action(name)
ScheduleAction ==
    /\ scheduler.event_counter < MaxActions
    /\ scheduler' = schedule_action(rotation, scheduler)
    /\ trace' = [trace EXCEPT !.op = "schedule_action"]
    /\ UNCHANGED <<rotation, untouched_by_rotation>>

\* the callback execute_action of schedule_action, run for each invocation of
\* the log: self.last_gcd_time = scheduler.current_time
execute_action(rot, log) ==
    IF log = <<>> THEN rot ELSE [rot EXCEPT !.last_gcd_time = log[Len(log)].at]

\* scheduler.tick(0.5)
TickRotation ==
    /\ scheduler.current_time + 5 <= MaxRotationTime
    /\ \E got \in {tick(scheduler, 5)} :
       /\ scheduler' = got.s
       /\ rotation' = execute_action(rotation, got.log)
       /\ trace' = [trace EXCEPT !.op = "tick",
                                 !.executed = @ \o [i \in DOMAIN got.log |-> got.log[i].at]]
    /\ UNCHANGED untouched_by_rotation

NextRotation == ScheduleAction \/ TickRotation

SpecRotation == InitRotation /\ [][NextRotation]_vars

\* C39: any two actions scheduled through schedule_action are executed at least
\* gcd_duration apart
GcdSpacing ==
    \A i, j \in DOMAIN trace.executed :
        i < j => trace.executed[j] - trace.executed[i] >= rotation.gcd_duration

-----------------------------------------------------------------------------
(* A load_apl call that fails *)

\* C40: a load_apl call that returns False leaves the executor's loaded APL as
\* it was, so that later cycles do not run the rejected list
FailedLoadChangesNothing ==
    [][(result'.op = "load_apl" /\ result'.error) =>
          (executor'.loaded = executor.loaded /\ executor'.current_apl = executor.current_apl)]_vars

====
